---------------------------- MODULE Spec2Model ----------------------------
(***************************************************************************)
(* Model of the wg-knowledge-system repository.  The link-ordering script  *)
(* reorder_links.py: identifier extraction, label tokenisation, the        *)
(* token-list comparator, the sort key, the per-file ordering driver and   *)
(* concurrent callers of the sort.  The download scripts check_progress.py *)
(* and download_jsons_concurrent.py on one working directory.  The other   *)
(* scripts, each on its own: find_missing_ids.py with                      *)
(* download_jsons_from_txt_ids.py, extract_links.py, the retry loop of     *)
(* download_json, generate_master_index, check_md_progress.py and          *)
(* cleanup_and_bold_first_words.py.                                        *)
(*                                                                         *)
(* A Python str is modelled as a sequence of one-character strings, a      *)
(* Python value stored in a token as a tagged pair <<"int", n>> or         *)
(* <<"str", c>>, and a token (type, value) as the pair <<type, value>>.    *)
(***************************************************************************)
EXTENDS Integers, Sequences, FiniteSets, TLC

VARIABLES
    pc,            \* position of the script / of the function under study
    file_lines,    \* process_files: raw lines of the current input file
    links,         \* process_files: the stripped, non-blank lines
    sorted_links,  \* process_files: sorted(links, key=custom_sort_key)
    out_lines,     \* process_files: lines written to the output file
    la, lb, lc,    \* labels handed to tokenize_label
    ta, tb, tc,    \* their token lists
    res,           \* results of the comparisons made on ta, tb, tc
    calls,         \* concurrent callers of the sort: the locals of each call
    token_list,    \* tokenize_label: the list under construction, per frame
    master_index,      \* master_index.txt: its lines, or Absent
    json_files,        \* index_full_jsons: the IDs that have a JSON file
    missing_jsons,     \* missing_jsons.txt: its lines, or Absent
    failed_downloads,  \* failed_downloads.txt: its lines, or Absent
    dl,                \* the run of download_jsons_concurrent.py under way
    run                \* the other scripts: the variables of the one under study

callVars == <<calls, token_list>>

downloadVars == <<master_index, json_files, missing_jsons, failed_downloads, dl>>

\* The variables the ordering script and its functions leave alone.
outsideOrdering == <<callVars, downloadVars, run>>

\* The variables of the ordering script and its functions.
orderingVars == <<pc, file_lines, links, sorted_links, out_lines, la, lb, lc, ta, tb, tc, res>>

\* The variables the other scripts leave alone.
outsideRun == <<orderingVars, callVars, downloadVars>>

vars == <<orderingVars, callVars, downloadVars, run>>

---------------------------------------------------------------------------
(* Characters and Python's str predicates.                                 *)

AsciiDigits == <<"0", "1", "2", "3", "4", "5", "6", "7", "8", "9">>

AsciiLower == <<"a", "b", "c", "d", "e", "f", "g", "h", "i", "j", "k", "l", "m",
                "n", "o", "p", "q", "r", "s", "t", "u", "v", "w", "x", "y", "z">>

AsciiUpper == <<"A", "B", "C", "D", "E", "F", "G", "H", "I", "J", "K", "L", "M",
                "N", "O", "P", "Q", "R", "S", "T", "U", "V", "W", "X", "Y", "Z">>

\* U+0663 ARABIC-INDIC DIGIT THREE: a decimal digit (category Nd) outside ASCII.
\* Python's \d and str.isdigit accept it and int() reads it as 3.
ArabicIndicThree == "U+0663"

\* U+00E9 LATIN SMALL LETTER E WITH ACUTE: a letter outside ASCII, matched by
\* neither \d nor [A-Za-z].
LatinSmallEAcute == "U+00E9"

Range(s) == {s[i] : i \in 1..Len(s)}

DigitChars == Range(AsciiDigits) \cup {ArabicIndicThree}

LowerChars == Range(AsciiLower)

UpperChars == Range(AsciiUpper)

SpaceChars == {" ", "\t", "\n", "\r"}

IndexOf(s, c) == CHOOSE i \in 1..Len(s) : s[i] = c

\* Fault model: \d under re.ASCII, the digits 0 to 9 alone.
IsDigitAscii(c) == c \in DigitChars \ {ArabicIndicThree}

\* The characters re's \d matches on a str pattern.
IsDigit(c) == c \in DigitChars

\* The characters re's [A-Za-z] matches.
IsLetter(c) == c \in LowerChars \/ c \in UpperChars

\* str.islower() of a one-letter chunk.
IsLower(c) == c \in LowerChars

\* The decimal value int() gives a digit character.
DigitVal(c) == IF c = ArabicIndicThree THEN 3 ELSE IndexOf(AsciiDigits, c) - 1

\* ord(c) of an ASCII letter: what str's < compares on one-character strings.
Ord(c) == IF c \in LowerChars THEN 96 + IndexOf(AsciiLower, c)
          ELSE 64 + IndexOf(AsciiUpper, c)

\* str.strip() removes these from both ends.
IsSpace(c) == c \in SpaceChars

---------------------------------------------------------------------------
(* str helpers.                                                            *)

Min(a, b) == IF a < b THEN a ELSE b

\* s[i:] for a 1-based i.
From(s, i) == SubSeq(s, i, Len(s))

\* str.startswith / str.endswith
StartsWith(s, p) == Len(s) >= Len(p) /\ SubSeq(s, 1, Len(p)) = p

EndsWith(s, p) == Len(s) >= Len(p) /\ SubSeq(s, Len(s) - Len(p) + 1, Len(s)) = p

\* url.rsplit('/', 1)[-1]: what follows the last '/', the whole string without one.
LastSegment(url) ==
    LET slashes == {i \in 1..Len(url) : url[i] = "/"}
    IN  IF slashes = {} THEN url
        ELSE From(url, (CHOOSE i \in slashes : \A j \in slashes : j <= i) + 1)

\* Fault model: the label scanned with its hyphens left in.
KeepHyphens(label) == label

\* label.replace('-', '')
RemoveHyphens(label) == SelectSeq(label, LAMBDA c : c # "-")

\* str.strip()
RECURSIVE LStrip(_)
LStrip(s) == IF s # <<>> /\ IsSpace(Head(s)) THEN LStrip(Tail(s)) ELSE s

RECURSIVE RStrip(_)
RStrip(s) == IF s # <<>> /\ IsSpace(s[Len(s)]) THEN RStrip(SubSeq(s, 1, Len(s) - 1)) ELSE s

Strip(s) == RStrip(LStrip(s))

\* The longest digit string int() converts: the interpreter's
\* sys.int_info.default_max_str_digits, in force since CPython 3.11 (and the
\* security releases of 3.7 to 3.10).  An interpreter older than that converts a
\* run of any length; the limit is the outcome a current interpreter produces.
MaxStrDigits == 4300

\* int(chunk) raises ValueError on a run longer than the limit.
IntRaises(chunk) == Len(chunk) > MaxStrDigits

\* int(chunk) of a run of decimal digits.
RECURSIVE ParseInt(_)
ParseInt(chunk) ==
    IF chunk = <<>> THEN 0
    ELSE 10 * ParseInt(SubSeq(chunk, 1, Len(chunk) - 1)) + DigitVal(chunk[Len(chunk)])

---------------------------------------------------------------------------
(* extract_id_from_url                                                     *)

UrlSuffix == <<"_", "V">>

UrlPrefix == <<"Z", "K", "_", "1", "_", "N", "B", "_">>

\* Fault model: the prefix removed before the suffix.
extract_id_from_url_prefix_first(url) ==
    LET filename == LastSegment(url)
        noPrefix == IF StartsWith(filename, UrlPrefix)
                    THEN From(filename, Len(UrlPrefix) + 1)
                    ELSE filename
    IN  IF EndsWith(noPrefix, UrlSuffix)
        THEN SubSeq(noPrefix, 1, Len(noPrefix) - 2)
        ELSE noPrefix

\* Fault model: the identifier with the trailing _V left on.
extract_id_from_url_suffix_kept(url) ==
    LET filename == LastSegment(url)
    IN  IF StartsWith(filename, UrlPrefix)
        THEN From(filename, Len(UrlPrefix) + 1)
        ELSE filename

extract_id_from_url(url) ==
    LET filename == LastSegment(url)
        noSuffix == IF EndsWith(filename, UrlSuffix)
                    THEN SubSeq(filename, 1, Len(filename) - 2)
                    ELSE filename
    IN  IF StartsWith(noSuffix, UrlPrefix)
        THEN From(noSuffix, Len(UrlPrefix) + 1)
        ELSE noSuffix

---------------------------------------------------------------------------
(* tokenize_label                                                          *)

\* Length of the maximal run of \d characters at the head of s.
DigitRun(s) ==
    LET stops == {i \in 1..Len(s) : ~IsDigit(s[i])}
    IN  IF stops = {} THEN Len(s)
        ELSE (CHOOSE i \in stops : \A j \in stops : i <= j) - 1

\* Fault model: the pattern \d|[A-Za-z], every digit a chunk of its own.
FindAllSingleDigits(s) ==
    LET kept == SelectSeq(s, LAMBDA c : IsDigit(c) \/ IsLetter(c))
    IN  [i \in 1..Len(kept) |-> <<kept[i]>>]

\* Fault model: the pattern \d+|[A-Za-z]+, a run of letters one chunk.
RECURSIVE FindAllLetterRuns(_)
FindAllLetterRuns(s) ==
    IF s = <<>> THEN <<>>
    ELSE IF IsDigit(Head(s))
         THEN <<SubSeq(s, 1, DigitRun(s))>> \o FindAllLetterRuns(From(s, DigitRun(s) + 1))
    ELSE IF IsLetter(Head(s))
         THEN LET stops == {i \in 1..Len(s) : ~IsLetter(s[i])}
                  n     == IF stops = {} THEN Len(s)
                           ELSE (CHOOSE i \in stops : \A j \in stops : i <= j) - 1
              IN  <<SubSeq(s, 1, n)>> \o FindAllLetterRuns(From(s, n + 1))
    ELSE FindAllLetterRuns(Tail(s))

\* re.findall(r'\d+|[A-Za-z]', s): left to right, a maximal digit run, else one
\* ASCII letter, else the character is skipped.
RECURSIVE FindAll(_)
FindAll(s) ==
    IF s = <<>> THEN <<>>
    ELSE IF IsDigit(Head(s))
         THEN <<SubSeq(s, 1, DigitRun(s))>> \o FindAll(From(s, DigitRun(s) + 1))
    ELSE IF IsLetter(Head(s))
         THEN <<SubSeq(s, 1, 1)>> \o FindAll(Tail(s))
    ELSE FindAll(Tail(s))

PyInt(n) == <<"int", n>>

PyStr(c) == <<"str", c>>

NumberToken(n) == <<0, PyInt(n)>>

LowerToken(c) == <<1, PyStr(c)>>

UpperToken(c) == <<2, PyStr(c)>>

\* Fault model: the two letter cases given each other's type.
TokensOfChunkCasesSwapped(chunk) ==
    IF \A i \in 1..Len(chunk) : IsDigit(chunk[i])
    THEN <<NumberToken(ParseInt(chunk))>>
    ELSE IF IsLower(chunk[1]) THEN <<<<2, PyStr(chunk[1])>>>>
                              ELSE <<<<1, PyStr(chunk[1])>>>>

\* The loop body of tokenize_label: the tokens one chunk appends.
TokensOfChunk(chunk) ==
    IF \A i \in 1..Len(chunk) : IsDigit(chunk[i])
    THEN <<NumberToken(ParseInt(chunk))>>
    ELSE IF \A i \in 1..Len(chunk) : IsLetter(chunk[i])
    THEN IF Len(chunk) = 1
         THEN IF IsLower(chunk[1]) THEN <<LowerToken(chunk[1])>>
                                   ELSE <<UpperToken(chunk[1])>>
         ELSE <<>>
    ELSE <<>>

\* The loop over the chunks: the tokens appended, in the order of the chunks (a
\* chunk appends one token or none).
TokensOfChunks(chunks) ==
    LET appended == SelectSeq([i \in 1..Len(chunks) |-> TokensOfChunk(chunks[i])],
                              LAMBDA tokens : tokens # <<>>)
    IN  [i \in 1..Len(appended) |-> appended[i][1]]

tokenize_label(label) == TokensOfChunks(FindAll(RemoveHyphens(label)))

\* tokenize_label raises when int() does on one of its digit chunks.
tokenize_label_raises(label) ==
    LET chunks == FindAll(RemoveHyphens(label))
    IN  \E i \in 1..Len(chunks) : IsDigit(chunks[i][1]) /\ IntRaises(chunks[i])

custom_sort_key_raises(url) == tokenize_label_raises(extract_id_from_url(url))

\* Fault model: the key taken from the whole line, the identifier not extracted.
custom_sort_key_whole_url(url) == tokenize_label(url)

custom_sort_key(url) == tokenize_label(extract_id_from_url(url))

---------------------------------------------------------------------------
(* compare_token_lists                                                     *)

\* Fault model: the comparator without the final length rule.
RECURSIVE CompareFromNoLengthRule(_, _, _)
CompareFromNoLengthRule(t1, t2, i) ==
    IF i > Min(Len(t1), Len(t2)) THEN 0
    ELSE LET x_type == t1[i][1]
             x_val  == t1[i][2][2]
             y_type == t2[i][1]
             y_val  == t2[i][2][2]
         IN  IF x_type # y_type THEN x_type - y_type
             ELSE IF x_type = 0
                  THEN IF x_val # y_val THEN x_val - y_val
                       ELSE CompareFromNoLengthRule(t1, t2, i + 1)
                  ELSE IF x_val # y_val
                       THEN IF Ord(x_val) < Ord(y_val) THEN -1 ELSE 1
                       ELSE CompareFromNoLengthRule(t1, t2, i + 1)

\* Fault model: the comparator with the type difference taken the wrong way round.
RECURSIVE CompareFromTypesReversed(_, _, _)
CompareFromTypesReversed(t1, t2, i) ==
    IF i > Min(Len(t1), Len(t2)) THEN Len(t1) - Len(t2)
    ELSE LET x_type == t1[i][1]
             x_val  == t1[i][2][2]
             y_type == t2[i][1]
             y_val  == t2[i][2][2]
         IN  IF x_type # y_type THEN y_type - x_type
             ELSE IF x_type = 0
                  THEN IF x_val # y_val THEN x_val - y_val
                       ELSE CompareFromTypesReversed(t1, t2, i + 1)
                  ELSE IF x_val # y_val
                       THEN IF Ord(x_val) < Ord(y_val) THEN -1 ELSE 1
                       ELSE CompareFromTypesReversed(t1, t2, i + 1)

\* Fault model: the comparator with the length rule turned round, the longer
\* list first.
RECURSIVE CompareFromLongerFirst(_, _, _)
CompareFromLongerFirst(t1, t2, i) ==
    IF i > Min(Len(t1), Len(t2)) THEN Len(t2) - Len(t1)
    ELSE LET x_type == t1[i][1]
             x_val  == t1[i][2][2]
             y_type == t2[i][1]
             y_val  == t2[i][2][2]
         IN  IF x_type # y_type THEN x_type - y_type
             ELSE IF x_type = 0
                  THEN IF x_val # y_val THEN x_val - y_val
                       ELSE CompareFromLongerFirst(t1, t2, i + 1)
                  ELSE IF x_val # y_val
                       THEN IF Ord(x_val) < Ord(y_val) THEN -1 ELSE 1
                       ELSE CompareFromLongerFirst(t1, t2, i + 1)

\* The for loop over zip(t1, t2) from position i on, then the length rule.
RECURSIVE CompareFrom(_, _, _)
CompareFrom(t1, t2, i) ==
    IF i > Min(Len(t1), Len(t2)) THEN Len(t1) - Len(t2)
    ELSE LET x_type == t1[i][1]
             x_val  == t1[i][2][2]
             y_type == t2[i][1]
             y_val  == t2[i][2][2]
         IN  IF x_type # y_type THEN x_type - y_type
             ELSE IF x_type = 0
                  THEN IF x_val # y_val THEN x_val - y_val
                       ELSE CompareFrom(t1, t2, i + 1)
                  ELSE IF x_val # y_val
                       THEN IF Ord(x_val) < Ord(y_val) THEN -1 ELSE 1
                       ELSE CompareFrom(t1, t2, i + 1)

compare_token_lists(t1, t2) == CompareFrom(t1, t2, 1)

---------------------------------------------------------------------------
(* Python's own comparison of the keys custom_sort_key returns: lists of   *)
(* (type, value) tuples, compared item by item.  Ordering an int against a *)
(* str raises TypeError.                                                   *)

\* v == w on two Python values.
ValueEq(v, w) == v[1] = w[1] /\ v[2] = w[2]

\* x == y on two tuples (type, value).
TupleEq(x, y) == x[1] = y[1] /\ ValueEq(x[2], y[2])

\* The ordering of two unequal tuples: their first unequal items decide.
TupleCompare(x, y) ==
    IF x[1] # y[1] THEN (IF x[1] < y[1] THEN "lt" ELSE "gt")
    ELSE IF x[2][1] # y[2][1] THEN "TypeError"
    ELSE IF x[2][1] = "int" THEN (IF x[2][2] < y[2][2] THEN "lt" ELSE "gt")
    ELSE (IF Ord(x[2][2]) < Ord(y[2][2]) THEN "lt" ELSE "gt")

\* Fault model: the longer of two lists first when no pair of items differs.
ListCompareLongerFirst(k1, k2) ==
    LET differ == {i \in 1..Min(Len(k1), Len(k2)) : ~TupleEq(k1[i], k2[i])}
    IN  IF differ = {}
        THEN (IF Len(k1) > Len(k2) THEN "lt"
              ELSE IF Len(k1) < Len(k2) THEN "gt" ELSE "eq")
        ELSE LET i == CHOOSE i \in differ : \A j \in differ : i <= j
             IN  TupleCompare(k1[i], k2[i])

\* The ordering of two lists: the first unequal pair decides, else the lengths.
ListCompare(k1, k2) ==
    LET differ == {i \in 1..Min(Len(k1), Len(k2)) : ~TupleEq(k1[i], k2[i])}
    IN  IF differ = {}
        THEN (IF Len(k1) < Len(k2) THEN "lt"
              ELSE IF Len(k1) > Len(k2) THEN "gt" ELSE "eq")
        ELSE LET i == CHOOSE i \in differ : \A j \in differ : i <= j
             IN  TupleCompare(k1[i], k2[i])

\* k1 < k2, the only comparison list.sort makes.
KeyLess(k1, k2) == ListCompare(k1, k2) = "lt"

---------------------------------------------------------------------------
(* sorted(links, key=custom_sort_key)                                      *)

\* [custom_sort_key(x) for x in xs]: the key of each element, computed once.
RECURSIVE KeysOf(_)
KeysOf(xs) ==
    IF xs = <<>> THEN <<>>
    ELSE <<custom_sort_key(Head(xs))>> \o KeysOf(Tail(xs))

\* Fault model: an insertion that puts x before the elements of equal key.
InsertBeforeEqualKeys(keys, done, x) ==
    LET later == {i \in 1..Len(done) : ~KeyLess(keys[done[i]], keys[x])}
        p     == IF later = {} THEN Len(done) + 1
                 ELSE CHOOSE i \in later : \A j \in later : i <= j
    IN  SubSeq(done, 1, p - 1) \o <<x>> \o From(done, p)

\* One insertion of the stable sort, on positions of the input: position x goes
\* before the first position whose key is greater than x's, hence after every
\* position it does not precede.
InsertByKey(keys, done, x) ==
    LET later == {i \in 1..Len(done) : KeyLess(keys[x], keys[done[i]])}
        p     == IF later = {} THEN Len(done) + 1
                 ELSE CHOOSE i \in later : \A j \in later : i <= j
    IN  SubSeq(done, 1, p - 1) \o <<x>> \o From(done, p)

RECURSIVE SortedFrom(_, _, _)
SortedFrom(keys, done, x) ==
    IF x > Len(keys) THEN done
    ELSE SortedFrom(keys, InsertByKey(keys, done, x), x + 1)

\* Fault model: sorted(set(links), key=...), each key kept once.
RECURSIVE FirstOccurrences(_, _)
FirstOccurrences(seen, xs) ==
    IF xs = <<>> THEN <<>>
    ELSE IF Head(xs) \in seen THEN FirstOccurrences(seen, Tail(xs))
    ELSE <<Head(xs)>> \o FirstOccurrences(seen \cup {Head(xs)}, Tail(xs))

sorted_set_by_key(xs) ==
    LET uniq  == FirstOccurrences({}, xs)
        order == SortedFrom(KeysOf(uniq), <<>>, 1)
    IN  [i \in 1..Len(uniq) |-> uniq[order[i]]]

\* Fault model: the sorted list returned back to front.
sorted_by_key_reversed(xs) ==
    LET order == SortedFrom(KeysOf(xs), <<>>, 1)
    IN  [i \in 1..Len(xs) |-> xs[order[Len(xs) + 1 - i]]]

\* The key function is applied once to each element, the positions are sorted
\* on the keys, and the elements are returned in that order.
sorted_by_key(xs) ==
    LET keys  == KeysOf(xs)
        order == SortedFrom(keys, <<>>, 1)
    IN  [i \in 1..Len(xs) |-> xs[order[i]]]

\* Computing the keys raises when custom_sort_key does on one element; sorted()
\* computes every key before it compares any two.
KeysRaise(xs) == \E i \in 1..Len(xs) : custom_sort_key_raises(xs[i])

\* The sort raises when it has to order two keys Python cannot order.
SortRaises(xs) ==
    LET keys == KeysOf(xs)
    IN  \E i, j \in 1..Len(xs) : ListCompare(keys[i], keys[j]) = "TypeError"

---------------------------------------------------------------------------
(* Bounds and input domains.                                               *)

\* Most lines an input file holds.
MaxLines == 3

\* Longest label handed to the tokenizer on its own.
MaxLabelLen == 2

\* The texts an input file's lines are drawn from: archive labels of one to
\* three levels, one identifier in its full form (a path, the ZK_1_NB_ and _V
\* markers) behind a leading blank, and a blank line.
LineTexts ==
    { <<"1", "-", "5">>,
      <<"1", "-", "5", "a">>,
      <<"1", "-", "5", "b">>,
      <<"1", "-", "5", "A">>,
      <<"1", "-", "9">>,
      <<"1", "-", "1", "0">>,
      <<"2", "-", "5">>,
      <<"1", "-", "5", "A", "1">>,
      <<"1", "-", "5", "A", "a">>,
      <<"1", "-", "5", "A", "B">>,
      <<" ", "z", "/", "Z", "K", "_", "1", "_", "N", "B", "_", "1", "-", "9", "_", "V">>,
      <<>> }

\* A line as iterating the file yields it: the text and its line break.
RawLines == {t \o <<"\n">> : t \in LineTexts}

SeqsUpTo(S, n) == UNION {[1..k -> S] : k \in 0..n}

\* A key that is one run of digits, one digit longer than int() converts.
LongNumberKey == [i \in 1..MaxStrDigits + 1 |-> "1"]

\* The contents of an input file: up to MaxLines of the lines above, and the one
\* line that is a run of digits too long for int().
FileContents == SeqsUpTo(RawLines, MaxLines) \cup {<<LongNumberKey \o <<"\n">>>>}

\* Most keys in a list handed to the sort on its own.
MaxKeys == 3

\* The keys such a list is drawn from: three identifiers in their full form, one
\* of them again behind a path, and keys the markers and the tokenizer leave
\* little or nothing of.
OrderKeys ==
    { <<"Z", "K", "_", "1", "_", "N", "B", "_", "1", "-", "5", "A", "1", "c", "_", "V">>,
      <<"Z", "K", "_", "1", "_", "N", "B", "_", "1", "-", "5", "_", "V">>,
      <<"Z", "K", "_", "1", "_", "N", "B", "_", "1", "-", "5", "A", "_", "V">>,
      <<"w", "/", "Z", "K", "_", "1", "_", "N", "B", "_", "1", "-", "5", "_", "V">>,
      <<"Z", "K", "_", "1", "_", "N", "B", "_", "V">>,
      <<"b", "/", "a">>,
      <<"_", "V">>,
      <<"-">>,
      <<>> }

\* The lists of keys: every list of up to MaxKeys keys, and the long key alone and
\* after each other key.
KeyLists ==
    SeqsUpTo(OrderKeys, MaxKeys)
        \cup {<<LongNumberKey>>}
        \cup {<<k, LongNumberKey>> : k \in OrderKeys}

\* The keys handed to extract_id_from_url on their own: a path or none, then a
\* prefix, a body and a suffix, each present, absent or cut short.
UrlPaths == {<<>>, <<"w", "/">>, <<"w", "_", "V", "/", "Z", "K", "_", "1", "_", "N", "B", "_", "x", "/">>, <<"/">>}

UrlHeads == {<<>>, <<"Z", "K", "_", "1", "_", "N", "B", "_">>, <<"Z", "K", "_", "1", "_", "N", "B">>}

UrlBodies == {<<>>, <<"1", "-", "5">>, <<"_", "V">>, <<"x">>}

UrlTails == {<<>>, <<"_", "V">>, <<"V">>}

UrlKeys == {p \o h \o b \o t : p \in UrlPaths, h \in UrlHeads, b \in UrlBodies, t \in UrlTails}

\* The characters labels are built from: two digits, two letters of each case, the
\* hyphen.
LabelChars == {"1", "2", "a", "b", "A", "B", "-"}

Labels == SeqsUpTo(LabelChars, MaxLabelLen)

\* Longest label of the tokenizer's full alphabet.
MaxScanLen == 3

\* That alphabet: ASCII digits, a letter of each case, the hyphen, punctuation,
\* a blank, a digit and a letter from outside ASCII.
ScanChars == {"0", "1", "a", "B", "-", "_", " ", ArabicIndicThree, LatinSmallEAcute}

\* The labels handed to tokenize_label: every string over the alphabet up to
\* MaxScanLen, and the run of digits int() does not convert.
ScanLabels == SeqsUpTo(ScanChars, MaxScanLen) \cup {LongNumberKey}

\* A smaller alphabet for the laws over three labels: one character of each
\* token type, numbers of several values by repetition.
CoreChars == {"1", "a", "A"}

CoreLabels == SeqsUpTo(CoreChars, MaxLabelLen)

---------------------------------------------------------------------------
(* process_files: one action per input file.                               *)

NoCompare == la = <<>> /\ lb = <<>> /\ lc = <<>> /\ ta = <<>> /\ tb = <<>> /\ tc = <<>> /\ res = <<>>

NoCalls == calls = <<>> /\ token_list = <<>>

NoDownloads ==
    /\ master_index = <<>> /\ json_files = {} /\ missing_jsons = <<>>
    /\ failed_downloads = <<>> /\ dl = <<>>

NoRun == run = <<>>

OutsideOrderingIdle == NoCalls /\ NoDownloads /\ NoRun

NoFiles == file_lines = <<>> /\ links = <<>> /\ sorted_links = <<>> /\ out_lines = <<>>

\* links = [line.strip() for line in f if line.strip()]
ReadLinks(content) ==
    LET stripped == [i \in 1..Len(content) |-> Strip(content[i])]
    IN  SelectSeq(stripped, LAMBDA l : l # <<>>)

\* f.write(f"{link}\n") for each link
WriteLinks(ls) == [i \in 1..Len(ls) |-> ls[i] \o <<"\n">>]

Init ==
    /\ pc = "listing"
    /\ NoFiles
    /\ NoCompare
    /\ OutsideOrderingIdle

\* One turn of the loop over os.listdir(input_dir) on a regular file: read, sort,
\* write.  A sort that raises leaves the output file unwritten and ends the
\* script.  The turns are independent of one another (each overwrites links and
\* sorted_links and writes its own file), so a run is followed through one of them.
ProcessFile ==
    /\ pc = "listing"
    /\ \E content \in FileContents :
        LET ls == ReadLinks(content)
            ordered == sorted_by_key(ls)
        IN  /\ file_lines' = content
            /\ links' = ls
            /\ IF KeysRaise(ls)
               THEN /\ pc' = "ValueError"
                    /\ UNCHANGED <<sorted_links, out_lines>>
               ELSE IF SortRaises(ls)
               THEN /\ pc' = "TypeError"
                    /\ UNCHANGED <<sorted_links, out_lines>>
               ELSE /\ pc' = "written"
                    /\ sorted_links' = ordered
                    /\ out_lines' = WriteLinks(ordered)
    /\ UNCHANGED <<la, lb, lc, ta, tb, tc, res>>
    /\ UNCHANGED outsideOrdering

\* The loop ends: "All files processed successfully."
Finish ==
    /\ pc \in {"listing", "written"}
    /\ pc' = "done"
    /\ UNCHANGED <<file_lines, links, sorted_links, out_lines, la, lb, lc, ta, tb, tc, res>>
    /\ UNCHANGED outsideOrdering

Next == ProcessFile \/ Finish

Spec == Init /\ [][Next]_vars

---------------------------------------------------------------------------
(* The comparator and the key comparison applied to two labels.            *)

InitCompare ==
    /\ pc = "labels"
    /\ la \in Labels
    /\ lb \in Labels
    /\ lc = <<>>
    /\ ta = <<>> /\ tb = <<>> /\ tc = <<>>
    /\ res = <<>>
    /\ NoFiles
    /\ OutsideOrderingIdle

\* token lists of both labels, compare_token_lists both ways, and the
\* comparison sorted() makes on the keys.
ComparePair ==
    /\ pc = "labels"
    /\ pc' = "compared"
    /\ ta' = tokenize_label(la)
    /\ tb' = tokenize_label(lb)
    /\ res' = [ab     |-> compare_token_lists(tokenize_label(la), tokenize_label(lb)),
               ba     |-> compare_token_lists(tokenize_label(lb), tokenize_label(la)),
               native |-> ListCompare(tokenize_label(la), tokenize_label(lb))]
    /\ UNCHANGED <<file_lines, links, sorted_links, out_lines, la, lb, lc, tc>>
    /\ UNCHANGED outsideOrdering

NextCompare == ComparePair

SpecCompare == InitCompare /\ [][NextCompare]_vars

---------------------------------------------------------------------------
(* The comparator applied to three labels.                                 *)

InitTriple ==
    /\ pc = "labels"
    /\ la \in CoreLabels
    /\ lb \in CoreLabels
    /\ lc \in CoreLabels
    /\ ta = <<>> /\ tb = <<>> /\ tc = <<>>
    /\ res = <<>>
    /\ NoFiles
    /\ OutsideOrderingIdle

CompareTriple ==
    /\ pc = "labels"
    /\ pc' = "compared"
    /\ ta' = tokenize_label(la)
    /\ tb' = tokenize_label(lb)
    /\ tc' = tokenize_label(lc)
    /\ res' = [ab |-> compare_token_lists(tokenize_label(la), tokenize_label(lb)),
               ba |-> compare_token_lists(tokenize_label(lb), tokenize_label(la)),
               bc |-> compare_token_lists(tokenize_label(lb), tokenize_label(lc)),
               ac |-> compare_token_lists(tokenize_label(la), tokenize_label(lc))]
    /\ UNCHANGED <<file_lines, links, sorted_links, out_lines, la, lb, lc>>
    /\ UNCHANGED outsideOrdering

NextTriple == CompareTriple

SpecTriple == InitTriple /\ [][NextTriple]_vars

---------------------------------------------------------------------------
(* sorted(links, key=custom_sort_key) applied to a list of keys.           *)

InitOrder ==
    /\ pc = "keys"
    /\ links \in KeyLists
    /\ file_lines = <<>> /\ sorted_links = <<>> /\ out_lines = <<>>
    /\ NoCompare
    /\ OutsideOrderingIdle

\* The keys are computed, then the list is sorted on them; an exception of
\* either step leaves sorted_links unassigned.
SortLinks ==
    /\ pc = "keys"
    /\ IF KeysRaise(links)
       THEN pc' = "ValueError" /\ UNCHANGED sorted_links
       ELSE IF SortRaises(links)
       THEN pc' = "TypeError" /\ UNCHANGED sorted_links
       ELSE pc' = "sorted" /\ sorted_links' = sorted_by_key(links)
    /\ UNCHANGED <<file_lines, links, out_lines, la, lb, lc, ta, tb, tc, res>>
    /\ UNCHANGED outsideOrdering

NextOrder == SortLinks

SpecOrder == InitOrder /\ [][NextOrder]_vars

---------------------------------------------------------------------------
(* tokenize_label applied to one label.                                    *)

InitTokenize ==
    /\ pc = "label"
    /\ la \in ScanLabels
    /\ lb = <<>> /\ lc = <<>>
    /\ ta = <<>> /\ tb = <<>> /\ tc = <<>>
    /\ res = <<>>
    /\ NoFiles
    /\ OutsideOrderingIdle

\* The call returns the token list, or int() raises on a digit chunk.
TokenizeLabel ==
    /\ pc = "label"
    /\ IF tokenize_label_raises(la)
       THEN pc' = "ValueError" /\ UNCHANGED ta
       ELSE pc' = "tokens" /\ ta' = tokenize_label(la)
    /\ UNCHANGED <<file_lines, links, sorted_links, out_lines, la, lb, lc, tb, tc, res>>
    /\ UNCHANGED outsideOrdering

NextTokenize == TokenizeLabel

SpecTokenize == InitTokenize /\ [][NextTokenize]_vars

---------------------------------------------------------------------------
(* extract_id_from_url applied to one key.                                 *)

InitExtract ==
    /\ pc = "key"
    /\ la \in UrlKeys
    /\ lb = <<>> /\ lc = <<>>
    /\ ta = <<>> /\ tb = <<>> /\ tc = <<>>
    /\ res = <<>>
    /\ NoFiles
    /\ OutsideOrderingIdle

ExtractId ==
    /\ pc = "key"
    /\ pc' = "extracted"
    /\ lb' = extract_id_from_url(la)
    /\ UNCHANGED <<file_lines, links, sorted_links, out_lines, la, lc, ta, tb, tc, res>>
    /\ UNCHANGED outsideOrdering

NextExtract == ExtractId

SpecExtract == InitExtract /\ [][NextExtract]_vars

---------------------------------------------------------------------------
(* Concurrent callers of sorted(keys, key=custom_sort_key).                *)

Callers == {1, 2}

\* The lists the callers sort.
CallInputs ==
    { <<>>,
      << <<"b", "1">> >>,
      << <<"Z", "K", "_", "1", "_", "N", "B", "_", "1", "-", "5", "A", "_", "V">>, <<"1", "-", "5">> >>,
      << <<"2">>, <<"1", "a">> >> }

\* Fault model: token_list a module-level list, one for all calls.
SharedFrame(c) == 1

\* The frame the locals of caller c's call of tokenize_label live in: every call
\* has its own, so token_list = [] binds a fresh list in it.
FrameOf(c) == c

InitCalls ==
    /\ calls \in [Callers -> {[pc |-> "key", keys |-> ks, idx |-> 1, chunks |-> <<>>,
                               ci |-> 1, key_list |-> <<>>, result |-> <<>>] : ks \in CallInputs}]
    /\ token_list = [c \in Callers |-> <<>>]
    /\ pc = "calls"
    /\ NoFiles
    /\ NoCompare
    /\ NoDownloads
    /\ NoRun

\* custom_sort_key is entered for the next element: the identifier is
\* extracted, the hyphens removed, the chunks found, token_list bound to [].
BeginKey(c) ==
    LET call == calls[c]
    IN  /\ call.pc = "key"
        /\ call.idx <= Len(call.keys)
        /\ calls' = [calls EXCEPT ![c] =
                [call EXCEPT !.pc = "chunk", !.ci = 1,
                             !.chunks = FindAll(RemoveHyphens(extract_id_from_url(call.keys[call.idx])))]]
        /\ token_list' = [token_list EXCEPT ![FrameOf(c)] = <<>>]
        /\ UNCHANGED <<orderingVars, downloadVars, run>>

\* One turn of the loop over chunks: the chunk's token is appended to
\* token_list, or int() raises.
AppendToken(c) ==
    LET call  == calls[c]
        chunk == call.chunks[call.ci]
    IN  /\ call.pc = "chunk"
        /\ call.ci <= Len(call.chunks)
        /\ IF IsDigit(chunk[1]) /\ IntRaises(chunk)
           THEN /\ calls' = [calls EXCEPT ![c] = [call EXCEPT !.pc = "ValueError"]]
                /\ UNCHANGED token_list
           ELSE /\ calls' = [calls EXCEPT ![c] = [call EXCEPT !.ci = call.ci + 1]]
                /\ token_list' = [token_list EXCEPT ![FrameOf(c)] = @ \o TokensOfChunk(chunk)]
        /\ UNCHANGED <<orderingVars, downloadVars, run>>

\* return token_list: the key of the element joins the keys computed so far.
ReturnKey(c) ==
    LET call == calls[c]
    IN  /\ call.pc = "chunk"
        /\ call.ci > Len(call.chunks)
        /\ calls' = [calls EXCEPT ![c] =
                [call EXCEPT !.pc = "key", !.idx = call.idx + 1,
                             !.key_list = Append(call.key_list, token_list[FrameOf(c)])]]
        /\ UNCHANGED <<token_list, orderingVars, downloadVars, run>>

\* Every key is computed: the elements are sorted on them and returned.
SortKeys(c) ==
    LET call  == calls[c]
        order == SortedFrom(call.key_list, <<>>, 1)
    IN  /\ call.pc = "key"
        /\ call.idx > Len(call.keys)
        /\ IF \E i, j \in 1..Len(call.keys) :
                ListCompare(call.key_list[i], call.key_list[j]) = "TypeError"
           THEN calls' = [calls EXCEPT ![c] = [call EXCEPT !.pc = "TypeError"]]
           ELSE calls' = [calls EXCEPT ![c] =
                    [call EXCEPT !.pc = "returned",
                                 !.result = [i \in 1..Len(call.keys) |-> call.keys[order[i]]]]]
        /\ UNCHANGED <<token_list, orderingVars, downloadVars, run>>

\* The callers run as threads: any caller that has a step may take it.
NextCalls ==
    \E c \in Callers : BeginKey(c) \/ AppendToken(c) \/ ReturnKey(c) \/ SortKeys(c)

SpecCalls == InitCalls /\ [][NextCalls]_vars

---------------------------------------------------------------------------
(* check_progress.py and download_jsons_concurrent.py on one working       *)
(* directory.  A link is the pair of its base and the last part of its     *)
(* path; a file is the sequence of its stripped non-blank lines, or Absent. *)

Absent == "absent"

ZettelBase == "https://niklas-luhmann-archiv.de/bestand/zettelkasten/zettel/"

\* A second address of the same notes.
ZettelBaseShort == "https://niklas-luhmann-archiv.de/zettel/"

\* Most worker threads asked for with --workers.
MaxWorkers == 2

\* The indexes generate_master_index can write from the input directory: lists
\* of links no two of which are equal, the second one with two links to one ID.
MasterIndexes ==
    { << <<ZettelBase, "ZK_1_NB_1-1_V">>, <<ZettelBase, "ZK_1_NB_1-2_V">> >>,
      << <<ZettelBase, "ZK_1_NB_1-1_V">>, <<ZettelBaseShort, "ZK_1_NB_1-1_V">> >> }

\* urlparse(url).path.split('/')[-1]
extract_id_from_link(url) == url[2]

RECURSIVE IdsOfLinks(_)
IdsOfLinks(ls) ==
    IF ls = <<>> THEN <<>>
    ELSE <<extract_id_from_link(Head(ls))>> \o IdsOfLinks(Tail(ls))

\* The IDs of the links whose JSON file does not exist, in the order of the
\* index: the loop of check_json_files and the same loop of get_missing_ids.
MissingOf(index, files) == SelectSeq(IdsOfLinks(index), LAMBDA id : id \notin files)

\* check_json_files(master_index_file, json_dir)["missing_ids"]
check_json_files(index, files) == MissingOf(index, files)

\* choices=['master_index.txt', 'missing_jsons.txt'] of --source.
SourceChoices == {"master_index.txt", "missing_jsons.txt"}

\* The values --source is given on the command line: the two choices and the one
\* the completion message names.
SourceArgs == SourceChoices \cup {"failed_downloads.txt"}

\* get_missing_ids(json_dir, source): the IDs of missing_jsons.txt as they
\* stand when that file is the source and exists, else the missing ones of
\* master_index.txt, else the script exits.
get_missing_ids(source) ==
    IF source = "missing_jsons.txt" /\ missing_jsons # Absent THEN missing_jsons
    ELSE IF master_index = Absent THEN "exit"
    ELSE MissingOf(master_index, json_files)

IdleRun ==
    [pc |-> "idle", source |-> "", max_workers |-> 0, missing_ids |-> <<>>, task |-> <<>>,
     success_count |-> 0, failed_ids |-> <<>>, start_files |-> {}]

\* No run of the download script is under way.
AtShell == dl.pc \in {"idle", "usage error", "exit", "nothing missing", "finished"}

InitDownloads ==
    /\ \/ master_index = Absent
       \/ master_index \in MasterIndexes
    /\ json_files \in SUBSET {"ZK_1_NB_1-1_V", "ZK_1_NB_1-2_V"}
    /\ missing_jsons = Absent
    /\ failed_downloads = Absent
    /\ dl = IdleRun
    /\ pc = "scripts"
    /\ NoFiles
    /\ NoCompare
    /\ NoCalls
    /\ NoRun

\* python check_progress.py: the index is generated when it is absent or the
\* user asks for it, the JSON files are counted, and missing_jsons.txt is
\* written when at least one is missing.
CheckProgress ==
    /\ AtShell
    /\ \E regenerate \in BOOLEAN, generated \in MasterIndexes :
        LET index == IF master_index = Absent \/ regenerate THEN generated ELSE master_index
            missing_ids == check_json_files(index, json_files)
        IN  /\ master_index' = index
            /\ missing_jsons' = IF Len(missing_ids) > 0 THEN missing_ids ELSE missing_jsons
    /\ UNCHANGED <<json_files, failed_downloads, dl>>
    /\ UNCHANGED <<orderingVars, callVars, run>>

\* python download_jsons_concurrent.py --workers n --source s up to the
\* submission of the tasks: argparse rejects a source outside the choices, the
\* script exits without the index, returns when nothing is listed, else
\* submits one download per listed ID.
StartDownload ==
    /\ AtShell
    /\ \E source \in SourceArgs, workers \in 1..MaxWorkers :
        IF source \notin SourceChoices
        THEN dl' = [IdleRun EXCEPT !.pc = "usage error", !.source = source]
        ELSE LET missing_ids == get_missing_ids(source)
             IN  IF missing_ids = "exit"
                 THEN dl' = [IdleRun EXCEPT !.pc = "exit", !.source = source]
                 ELSE IF missing_ids = <<>>
                 THEN dl' = [IdleRun EXCEPT !.pc = "nothing missing", !.source = source]
                 ELSE dl' = [pc |-> "running", source |-> source, max_workers |-> workers,
                             missing_ids |-> missing_ids,
                             task |-> [i \in 1..Len(missing_ids) |-> "queued"],
                             success_count |-> 0, failed_ids |-> <<>>,
                             start_files |-> json_files]
    /\ UNCHANGED <<master_index, json_files, missing_jsons, failed_downloads>>
    /\ UNCHANGED <<orderingVars, callVars, run>>

TasksIn(phases) == {i \in 1..Len(dl.task) : dl.task[i] \in phases}

\* A free worker thread takes the first task of the queue and calls
\* download_json on it.
StartTask ==
    /\ dl.pc = "running"
    /\ Cardinality(TasksIn({"requesting", "writing"})) < dl.max_workers
    /\ \E i \in TasksIn({"queued"}) :
        /\ \A j \in TasksIn({"queued"}) : i <= j
        /\ dl' = [dl EXCEPT !.task[i] = "requesting"]
    /\ UNCHANGED <<master_index, json_files, missing_jsons, failed_downloads>>
    /\ UNCHANGED <<orderingVars, callVars, run>>

\* An attempt of the task has its response: open(save_path, 'w') creates the
\* file and json.dump starts writing it.
OpenJson ==
    /\ dl.pc = "running"
    /\ \E i \in TasksIn({"requesting"}) :
        /\ dl' = [dl EXCEPT !.task[i] = "writing"]
        /\ json_files' = json_files \cup {dl.missing_ids[i]}
    /\ UNCHANGED <<master_index, missing_jsons, failed_downloads>>
    /\ UNCHANGED <<orderingVars, callVars, run>>

\* download_json returns: (True, id_part) once the file is written, (False,
\* id_part) when the attempts have failed.
ReturnTask ==
    /\ dl.pc = "running"
    /\ \E i \in TasksIn({"requesting", "writing"}) :
        dl' = [dl EXCEPT !.task[i] = IF dl.task[i] = "writing" THEN "succeeded" ELSE "failed"]
    /\ UNCHANGED <<master_index, json_files, missing_jsons, failed_downloads>>
    /\ UNCHANGED <<orderingVars, callVars, run>>

\* Fault model: failed_ids kept without repetitions.
NoteFailureOnce(failed_ids, id_part) ==
    IF id_part \in Range(failed_ids) THEN failed_ids ELSE Append(failed_ids, id_part)

\* failed_ids.append(id_part)
NoteFailure(failed_ids, id_part) == Append(failed_ids, id_part)

\* One turn of the loop over as_completed: the result of a finished task is
\* taken and counted.
TakeResult ==
    /\ dl.pc = "running"
    /\ \E i \in TasksIn({"succeeded", "failed"}) :
        LET success == dl.task[i] = "succeeded"
        IN  dl' = [dl EXCEPT !.task[i] = IF success THEN "counted success" ELSE "counted failure",
                             !.success_count = IF success THEN @ + 1 ELSE @,
                             !.failed_ids = IF success THEN @ ELSE NoteFailure(@, dl.missing_ids[i])]
    /\ UNCHANGED <<master_index, json_files, missing_jsons, failed_downloads>>
    /\ UNCHANGED <<orderingVars, callVars, run>>

\* Every result is taken: failed_downloads.txt is written when a download
\* failed, the completion message is printed and the script ends.
FinishDownload ==
    /\ dl.pc = "running"
    /\ TasksIn({"counted success", "counted failure"}) = 1..Len(dl.task)
    /\ failed_downloads' = IF dl.failed_ids # <<>> THEN dl.failed_ids ELSE failed_downloads
    /\ dl' = [dl EXCEPT !.pc = "finished"]
    /\ UNCHANGED <<master_index, json_files, missing_jsons>>
    /\ UNCHANGED <<orderingVars, callVars, run>>

NextDownloads ==
    \/ CheckProgress \/ StartDownload \/ StartTask \/ OpenJson
    \/ ReturnTask \/ TakeResult \/ FinishDownload

SpecDownloads == InitDownloads /\ [][NextDownloads]_vars

---------------------------------------------------------------------------
(* The other scripts, one at a time: run holds the variables of the script *)
(* under study, under the names the source gives them.                     *)

OutsideRunIdle == pc = "run" /\ NoFiles /\ NoCompare /\ NoCalls /\ NoDownloads

---------------------------------------------------------------------------
(* Vocabulary of the properties.                                           *)

\* tokenize(extract(key))
TokensOfKey(key) == tokenize_label(extract_id_from_url(key))

\* The token lists of the keys of a list, in its order.
RECURSIVE TokenLists(_)
TokenLists(keys) ==
    IF keys = <<>> THEN <<>>
    ELSE <<TokensOfKey(Head(keys))>> \o TokenLists(Tail(keys))

\* The elements of xs whose token list (ks holds them, position by position) is k.
WithTokens(xs, ks, k) ==
    LET at == SelectSeq([p \in 1..Len(xs) |-> p], LAMBDA p : ks[p] = k)
    IN  [n \in 1..Len(at) |-> xs[at[n]]]

\* The first position at which two token lists hold unequal tokens, 0 if none.
FirstDiff(k1, k2) ==
    LET differ == {i \in 1..Min(Len(k1), Len(k2)) : ~TupleEq(k1[i], k2[i])}
    IN  IF differ = {} THEN 0 ELSE CHOOSE i \in differ : \A j \in differ : i <= j

\* The kind of a token, read off its value.
TokKind(tok) ==
    IF tok[2][1] = "int" THEN "Number"
    ELSE IF tok[2][2] \in LowerChars THEN "LowerLetter" ELSE "UpperLetter"

KindRank(kind) == CASE kind = "Number" -> 0 [] kind = "LowerLetter" -> 1 [] kind = "UpperLetter" -> 2

\* Every occurrence of x in the output precedes every occurrence of y.
Before(x, y) ==
    \A i, j \in 1..Len(sorted_links) :
        (sorted_links[i] = x /\ sorted_links[j] = y) => i < j

Sign(n) == IF n < 0 THEN -1 ELSE IF n > 0 THEN 1 ELSE 0

Count(x, xs) == Cardinality({i \in 1..Len(xs) : xs[i] = x})

\* A label n-m: two runs of ASCII digits around one hyphen.
IsTwoPart(l) ==
    /\ Cardinality({i \in 1..Len(l) : l[i] = "-"}) = 1
    /\ l[1] # "-" /\ l[Len(l)] # "-"
    /\ \A i \in 1..Len(l) : l[i] = "-" \/ l[i] \in Range(AsciiDigits)

HyphenAt(l) == CHOOSE i \in 1..Len(l) : l[i] = "-"

FirstPart(l) == ParseInt(SubSeq(l, 1, HyphenAt(l) - 1))

SecondPart(l) == ParseInt(From(l, HyphenAt(l) + 1))

Moved == pc = "written" /\ sorted_links # links

---------------------------------------------------------------------------
(* Properties of the ordering driver, under Spec.                          *)

\* C1: the list the ordering driver produces is ascending under the comparator:
\* compare_token_lists on the token lists of every adjacent pair of the output
\* is <= 0.
C1_OutputAscending ==
    pc = "written" =>
        LET outToks == TokenLists(sorted_links)
        IN  \A i \in 1..(Len(sorted_links) - 1) :
                compare_token_lists(outToks[i], outToks[i + 1]) <= 0

C1_Witness == Moved /\ Len(sorted_links) = 3

\* C2: a hyphen between two digit runs keeps them two Number tokens: a label n-m
\* tokenizes to [Number(n), Number(m)], which is not the token list of the label
\* with the hyphen left out ("1-5" gives [1, 5], "15" gives [15]).
C2_HyphenKeepsNumbersApart ==
    \A i \in 1..Len(links) :
        LET l == extract_id_from_url(links[i])
        IN  IsTwoPart(l) =>
                /\ tokenize_label(l) = <<NumberToken(FirstPart(l)), NumberToken(SecondPart(l))>>
                /\ tokenize_label(l) # tokenize_label(RemoveHyphens(l))

\* C3: labels n1-m1 and n2-m2 sort component by component: the one with the
\* smaller n comes first whatever the m are, and with equal n the one with the
\* smaller m.
C3_NestedOrder ==
    pc = "written" =>
        \A i, j \in 1..Len(links) :
            LET l1 == extract_id_from_url(links[i])
                l2 == extract_id_from_url(links[j])
            IN  (/\ IsTwoPart(l1) /\ IsTwoPart(l2)
                 /\ \/ FirstPart(l1) < FirstPart(l2)
                    \/ FirstPart(l1) = FirstPart(l2) /\ SecondPart(l1) < SecondPart(l2))
                => Before(links[i], links[j])

\* C4: the ordering is stable: the keys that share one token list appear in the
\* output in the order they have in the input.
C4_Stable ==
    pc = "written" =>
        LET inToks  == TokenLists(links)
            outToks == TokenLists(sorted_links)
        IN  \A i \in 1..Len(links) :
                WithTokens(sorted_links, outToks, inToks[i])
                    = WithTokens(links, inToks, inToks[i])

C4_Witness ==
    /\ Moved
    /\ \E i, j \in 1..Len(links) :
        /\ i < j
        /\ links[i] # links[j]
        /\ TokensOfKey(links[i]) = TokensOfKey(links[j])

\* C5: the output is a permutation of the input: every key occurs in it as many
\* times as in the input, duplicates and the empty list included.
C5_Permutation ==
    pc = "written" =>
        /\ Len(sorted_links) = Len(links)
        /\ \A x \in Range(links) \cup Range(sorted_links) :
            Count(x, sorted_links) = Count(x, links)

C5_Witness ==
    /\ Moved
    /\ \E i, j \in 1..Len(links) : i # j /\ links[i] = links[j]

\* C6: ordering is idempotent: ordering the output again returns the output.
C6_Idempotent ==
    pc = "written" => sorted_by_key(sorted_links) = sorted_links

C6_Witness ==
    /\ Moved
    /\ Len(links) = 3
    /\ \E i, j \in 1..Len(links) :
        links[i] # links[j] /\ TokensOfKey(links[i]) = TokensOfKey(links[j])

\* C9: where two token lists first differ, a Number sorts before a LowerLetter
\* and a LowerLetter before an UpperLetter, whatever their values; and
\* order(["1-5a", "1-5A", "1-5"]) is ["1-5", "1-5a", "1-5A"].
C9_TypeRank ==
    pc = "written" =>
        /\ LET inToks == TokenLists(links)
           IN  \A i, j \in 1..Len(links) :
                LET k1 == inToks[i]
                    k2 == inToks[j]
                    p  == FirstDiff(k1, k2)
                IN  (p > 0 /\ KindRank(TokKind(k1[p])) < KindRank(TokKind(k2[p])))
                    => Before(links[i], links[j])
        /\ links = <<<<"1", "-", "5", "a">>, <<"1", "-", "5", "A">>, <<"1", "-", "5">>>>
            => sorted_links = <<<<"1", "-", "5">>, <<"1", "-", "5", "a">>, <<"1", "-", "5", "A">>>>

C9_Witness ==
    /\ pc = "written"
    /\ links = <<<<"1", "-", "5", "a">>, <<"1", "-", "5", "A">>, <<"1", "-", "5">>>>
    /\ sorted_links = <<<<"1", "-", "5">>, <<"1", "-", "5", "a">>, <<"1", "-", "5", "A">>>>

\* C10: two Number tokens at the same position are ordered by integer value,
\* two letters of one case by character code; and order(["1-9", "1-10"]) is
\* ["1-9", "1-10"].
C10_ValueOrder ==
    pc = "written" =>
        /\ LET inToks == TokenLists(links)
           IN  \A i, j \in 1..Len(links) :
                LET k1 == inToks[i]
                    k2 == inToks[j]
                    p  == FirstDiff(k1, k2)
                IN  (/\ p > 0
                     /\ TokKind(k1[p]) = TokKind(k2[p])
                     /\ IF TokKind(k1[p]) = "Number"
                        THEN k1[p][2][2] < k2[p][2][2]
                        ELSE Ord(k1[p][2][2]) < Ord(k2[p][2][2]))
                    => Before(links[i], links[j])
        /\ links = <<<<"1", "-", "9">>, <<"1", "-", "1", "0">>>>
            => sorted_links = <<<<"1", "-", "9">>, <<"1", "-", "1", "0">>>>

\* The numbers 110 and 15 in the order their digit strings would not give, and
\* the letters b and a.
C10_Witness ==
    /\ pc = "written"
    /\ links = <<<<"1", "-", "1", "0">>, <<"1", "-", "5", "b">>, <<"1", "-", "5", "a">>>>
    /\ sorted_links = <<<<"1", "-", "5", "a">>, <<"1", "-", "5", "b">>, <<"1", "-", "1", "0">>>>

---------------------------------------------------------------------------
(* Properties of the comparator, under SpecTriple and SpecCompare.         *)

\* C7: the comparator is a total preorder on the tokenizer's output:
\* compare(a, b) and compare(b, a) have opposite signs, and compare(a, b) <= 0
\* with compare(b, c) <= 0 gives compare(a, c) <= 0.
C7_TotalPreorder ==
    pc = "compared" =>
        /\ Sign(res.ab) = -Sign(res.ba)
        /\ ((res.ab <= 0 /\ res.bc <= 0) => res.ac <= 0)

C7_Witness ==
    /\ pc = "compared"
    /\ Len(ta) = 2 /\ Len(tb) = 1 /\ Len(tc) = 2
    /\ res.ab > 0 /\ res.ba < 0 /\ res.bc < 0 /\ res.ac < 0

\* C8: the comparison Python makes on two keys agrees with the comparator: the
\* key lists compare <, == or > exactly when compare_token_lists is negative,
\* zero or positive.
C8_KeyAgreesWithComparator ==
    pc = "compared" =>
        /\ (res.native = "lt" <=> res.ab < 0)
        /\ (res.native = "eq" <=> res.ab = 0)
        /\ (res.native = "gt" <=> res.ab > 0)

C8_Witness ==
    /\ pc = "compared"
    /\ Len(ta) = 2 /\ Len(tb) = 2
    /\ FirstDiff(ta, tb) = 2
    /\ res.native = "gt" /\ res.ab > 0

---------------------------------------------------------------------------
(* The prefix rule, under Spec.                                            *)

\* k1 is k2 cut short: fewer tokens, all equal to k2's at their positions.
IsStrictPrefix(k1, k2) ==
    Len(k1) < Len(k2) /\ \A p \in 1..Len(k1) : TupleEq(k1[p], k2[p])

SameTokens(k1, k2) ==
    Len(k1) = Len(k2) /\ \A p \in 1..Len(k1) : TupleEq(k1[p], k2[p])

\* C11: a token list that is a strict prefix of another sorts earlier, two lists
\* compare equal only when they have the same length and equal tokens at every
\* position, and order(["1-5A1", "1-5A"]) is ["1-5A", "1-5A1"].
C11_PrefixRule ==
    pc = "written" =>
        /\ LET inToks == TokenLists(links)
           IN  \A i, j \in 1..Len(links) :
                /\ IsStrictPrefix(inToks[i], inToks[j]) =>
                        /\ compare_token_lists(inToks[i], inToks[j]) < 0
                        /\ Before(links[i], links[j])
                /\ compare_token_lists(inToks[i], inToks[j]) = 0
                        <=> SameTokens(inToks[i], inToks[j])
        /\ links = <<<<"1", "-", "5", "A", "1">>, <<"1", "-", "5", "A">>>>
            => sorted_links = <<<<"1", "-", "5", "A">>, <<"1", "-", "5", "A", "1">>>>

C11_Witness ==
    /\ pc = "written"
    /\ links = <<<<"1", "-", "5", "A", "1">>, <<"1", "-", "5", "A">>>>
    /\ sorted_links = <<<<"1", "-", "5", "A">>, <<"1", "-", "5", "A", "1">>>>

---------------------------------------------------------------------------
(* Keys in their full form, under SpecOrder.                               *)

\* The identifiers the keys of a list are reduced to, in its order.
ExtractedLabels(keys) == [i \in 1..Len(keys) |-> extract_id_from_url(keys[i])]

ZkKeys ==
    << <<"Z", "K", "_", "1", "_", "N", "B", "_", "1", "-", "5", "A", "1", "c", "_", "V">>,
       <<"Z", "K", "_", "1", "_", "N", "B", "_", "1", "-", "5", "_", "V">>,
       <<"Z", "K", "_", "1", "_", "N", "B", "_", "1", "-", "5", "A", "_", "V">> >>

\* C12: keys carrying the ZK_1_NB_ prefix and the _V suffix are ordered by their
\* extracted labels and the output holds the original keys: the list
\* ["ZK_1_NB_1-5A1c_V", "ZK_1_NB_1-5_V", "ZK_1_NB_1-5A_V"] has the labels
\* ["1-5A1c", "1-5", "1-5A"] and comes out as
\* ["ZK_1_NB_1-5_V", "ZK_1_NB_1-5A_V", "ZK_1_NB_1-5A1c_V"].
C12_EndToEnd ==
    pc = "sorted" =>
        /\ LET labels == ExtractedLabels(sorted_links)
           IN  \A i \in 1..Len(labels) - 1 :
                ListCompare(tokenize_label(labels[i]), tokenize_label(labels[i + 1]))
                    \in {"lt", "eq"}
        /\ \A i \in 1..Len(sorted_links) : \E j \in 1..Len(links) : sorted_links[i] = links[j]
        /\ links = ZkKeys =>
            /\ ExtractedLabels(links) = << <<"1", "-", "5", "A", "1", "c">>, <<"1", "-", "5">>, <<"1", "-", "5", "A">> >>
            /\ sorted_links = <<ZkKeys[2], ZkKeys[3], ZkKeys[1]>>

C12_Witness ==
    /\ pc = "sorted"
    /\ links = ZkKeys
    /\ sorted_links = <<ZkKeys[2], ZkKeys[3], ZkKeys[1]>>

\* C13: the ordering never fails: on every list of keys (the empty list, empty
\* strings, malformed keys) extraction, tokenization and the sort complete
\* without an error, and the sort never has to compare two keys Python cannot
\* order.
C13_OrderNeverFails ==
    /\ pc \notin {"ValueError", "TypeError"}
    /\ pc = "sorted" =>
        LET keys == TokenLists(links)
        IN  \A i, j \in 1..Len(links) : ListCompare(keys[i], keys[j]) # "TypeError"

---------------------------------------------------------------------------
(* The tokenizer on one label, under SpecTokenize.                         *)

\* The label without its hyphens.
RECURSIVE Dehyphenated(_)
Dehyphenated(l) ==
    IF l = <<>> THEN <<>>
    ELSE IF Head(l) = "-" THEN Dehyphenated(Tail(l))
    ELSE <<Head(l)>> \o Dehyphenated(Tail(l))

\* Where the reference scan of s emits a token: at every ASCII letter and at the
\* first digit of every maximal run of digits.
ScanStarts(s) ==
    {i \in 1..Len(s) :
        \/ s[i] \in LowerChars \cup UpperChars
        \/ s[i] \in DigitChars /\ (i = 1 \/ s[i - 1] \notin DigitChars)}

\* The last position of the maximal run of digits starting at i.
RunEnd(s, i) ==
    CHOOSE j \in i..Len(s) :
        /\ \A k \in i..j : s[k] \in DigitChars
        /\ j = Len(s) \/ s[j + 1] \notin DigitChars

\* The number the digits s[i..j] write in base ten.
RECURSIVE DecimalValue(_, _, _)
DecimalValue(s, i, j) ==
    IF j < i THEN 0 ELSE 10 * DecimalValue(s, i, j - 1) + DigitVal(s[j])

\* The token the reference scan emits at start i: its kind and its value.
ScanToken(s, i) ==
    IF s[i] \in LowerChars THEN <<"LowerLetter", s[i]>>
    ELSE IF s[i] \in UpperChars THEN <<"UpperLetter", s[i]>>
    ELSE <<"Number", DecimalValue(s, i, RunEnd(s, i))>>

IsAsciiLetter(c) == c \in LowerChars \cup UpperChars

\* Position i of s lies in a run of two or more consecutive ASCII letters.
InLetterRun(s, i) ==
    /\ IsAsciiLetter(s[i])
    /\ \/ i > 1 /\ IsAsciiLetter(s[i - 1])
       \/ i < Len(s) /\ IsAsciiLetter(s[i + 1])

\* C15: a run of two or more consecutive alphabetic characters is ignored by the
\* tokenizer: no token is emitted for it, only isolated single letters produce
\* letter tokens.
C15_LetterRunsIgnored ==
    pc = "tokens" =>
        LET s == Dehyphenated(la)
        IN  Len(ta) = Cardinality({i \in ScanStarts(s) : ~InLetterRun(s, i)})

\* C15, as the code has it: a run of two or more consecutive ASCII letters is
\* tokenized letter by letter, each letter of the run giving its own letter
\* token, next to its neighbour's.
C15_LetterRunsLetterByLetter ==
    pc = "tokens" =>
        LET s      == Dehyphenated(la)
            starts == ScanStarts(s)
        IN  \A i \in 1..Len(s) - 1 :
                IsAsciiLetter(s[i]) /\ IsAsciiLetter(s[i + 1]) =>
                    LET k == Cardinality({j \in starts : j <= i})
                    IN  /\ k + 1 <= Len(ta)
                        /\ ta[k][2] = PyStr(s[i])
                        /\ ta[k + 1][2] = PyStr(s[i + 1])

C15_Witness ==
    /\ pc = "tokens"
    /\ la = <<"a", "B">>
    /\ ta = <<LowerToken("a"), UpperToken("B")>>


\* The label with a blank in the place of every character outside keep.
Blanked(l, keep) == [i \in 1..Len(l) |-> IF l[i] \in keep THEN l[i] ELSE " "]

\* The label with the digit 3 in the place of every Arabic-Indic three.
Latinized(l) == [i \in 1..Len(l) |-> IF l[i] = ArabicIndicThree THEN "3" ELSE l[i]]

AsciiTokenChars == Range(AsciiDigits) \cup LowerChars \cup UpperChars

\* C16: every character that is neither a decimal digit 0-9 nor an ASCII letter
\* (punctuation, whitespace, underscore, any non-ASCII character, non-ASCII
\* digits included) is silently dropped: it produces no token and no error.
C16_OnlyAsciiCounts ==
    /\ pc = "label" /\ la # LongNumberKey => ~tokenize_label_raises(la)
    /\ pc = "tokens" =>
        /\ ta = tokenize_label(Blanked(la, AsciiTokenChars \cup {"-"}))
        /\ Range(la) \cap AsciiTokenChars = {} => ta = <<>>

\* C16, as the code has it: every character that is neither a decimal digit
\* (the digits 0-9 and the decimal digits outside ASCII) nor an ASCII letter is
\* dropped without a token and without an error; a decimal digit from outside
\* ASCII is read as the digit it stands for.
C16_NonDigitsNonLettersDropped ==
    /\ pc = "label" /\ la # LongNumberKey => ~tokenize_label_raises(la)
    /\ pc = "tokens" =>
        /\ ta = tokenize_label(Blanked(la, DigitChars \cup LowerChars \cup UpperChars \cup {"-"}))
        /\ Range(la) \cap (DigitChars \cup LowerChars \cup UpperChars) = {} => ta = <<>>
        /\ ta = tokenize_label(Latinized(la))

C16_Witness ==
    /\ pc = "tokens"
    /\ la = <<"1", ArabicIndicThree, "_">>
    /\ ta = <<NumberToken(13)>>

---------------------------------------------------------------------------
(* Empty token lists, under SpecOrder.                                     *)

TokenChars == DigitChars \cup LowerChars \cup UpperChars

\* In the output every key of empty token list stands before every key of
\* non-empty token list.
EmptyKeysFirst ==
    LET outToks == TokenLists(sorted_links)
    IN  \A i, j \in 1..Len(sorted_links) :
            outToks[i] = <<>> /\ outToks[j] # <<>> => i < j

\* C17: tokenize never returns the empty sequence for a non-empty label made of
\* digits, letters and hyphens only; an empty label yields the empty sequence;
\* and a key whose token sequence is empty sorts before every key whose token
\* sequence is non-empty.
C17_EmptyOnlyForEmptyLabel ==
    pc = "sorted" =>
        /\ \A i \in 1..Len(links) :
            LET label == extract_id_from_url(links[i])
            IN  /\ label # <<>> /\ Range(label) \subseteq TokenChars \cup {"-"}
                        => tokenize_label(label) # <<>>
                /\ label = <<>> => tokenize_label(label) = <<>>
        /\ EmptyKeysFirst

\* C17, as the code has it: tokenize returns the empty sequence exactly for the
\* labels that hold no decimal digit and no ASCII letter (the empty label, a
\* label of hyphens only), and a key whose token sequence is empty sorts before
\* every key whose token sequence is non-empty.
C17_EmptyIffNoDigitNoLetter ==
    pc = "sorted" =>
        /\ \A i \in 1..Len(links) :
            LET label == extract_id_from_url(links[i])
            IN  tokenize_label(label) = <<>> <=> Range(label) \cap TokenChars = {}
        /\ EmptyKeysFirst

C17_Witness ==
    /\ pc = "sorted"
    /\ links = << <<"Z", "K", "_", "1", "_", "N", "B", "_", "1", "-", "5", "_", "V">>, <<"-">> >>
    /\ sorted_links = << <<"-">>, <<"Z", "K", "_", "1", "_", "N", "B", "_", "1", "-", "5", "_", "V">> >>

---------------------------------------------------------------------------
(* The extraction on one key, under SpecExtract.                           *)

TrailingMarker == <<"_", "V">>

LeadingMarker == <<"Z", "K", "_", "1", "_", "N", "B", "_">>

\* s is what follows the last '/' of key: all of it when it has none.
IsLastSegment(s, key) ==
    /\ "/" \notin Range(s)
    /\ Len(s) <= Len(key)
    /\ SubSeq(key, Len(key) - Len(s) + 1, Len(key)) = s
    /\ Len(s) = Len(key) \/ key[Len(key) - Len(s)] = "/"

HasTail(s, t) == Len(s) >= Len(t) /\ SubSeq(s, Len(s) - Len(t) + 1, Len(s)) = t

HasHead(s, h) == Len(s) >= Len(h) /\ SubSeq(s, 1, Len(h)) = h

\* C18: the extracted label is the part of the key after its last '/', with a
\* trailing _V removed if present and then a leading ZK_1_NB_ removed if
\* present; with neither marker it is that segment unchanged; the extraction
\* fails on no key.
C18_ExtractLabel ==
    pc = "extracted" =>
        \E n \in 0..Len(la) :
            LET seg  == SubSeq(la, Len(la) - n + 1, Len(la))
                body == IF HasTail(seg, TrailingMarker)
                        THEN SubSeq(seg, 1, Len(seg) - Len(TrailingMarker))
                        ELSE seg
            IN  /\ IsLastSegment(seg, la)
                /\ IF HasHead(body, LeadingMarker)
                   THEN LeadingMarker \o lb = body
                   ELSE lb = body
                /\ ~HasTail(seg, TrailingMarker) /\ ~HasHead(seg, LeadingMarker) => lb = seg

C18_Witness ==
    /\ pc = "extracted"
    /\ la = <<"w", "_", "V", "/", "Z", "K", "_", "1", "_", "N", "B", "_", "x", "/", "Z", "K", "_", "1", "_", "N", "B", "_", "1", "-", "5", "_", "V">>
    /\ lb = <<"1", "-", "5">>

---------------------------------------------------------------------------
(* Concurrent callers, under SpecCalls.                                    *)

\* C19: the ordering has no shared mutable state: when several callers sort
\* their own lists concurrently, under every interleaving each caller obtains
\* exactly the result a sequential call on its list returns.
C19_CallersIndependent ==
    \A c \in Callers :
        /\ calls[c].pc \notin {"ValueError", "TypeError"}
        /\ calls[c].pc = "returned" => calls[c].result = sorted_by_key(calls[c].keys)

\* One caller has returned its sorted list while the other, started before that,
\* is in the middle of the tokens of its first key.
C19_Witness ==
    /\ calls[1].pc = "returned"
    /\ calls[1].keys = << <<"Z", "K", "_", "1", "_", "N", "B", "_", "1", "-", "5", "A", "_", "V">>, <<"1", "-", "5">> >>
    /\ calls[1].result = << <<"1", "-", "5">>, <<"Z", "K", "_", "1", "_", "N", "B", "_", "1", "-", "5", "A", "_", "V">> >>
    /\ calls[2].pc = "chunk" /\ calls[2].idx = 1 /\ calls[2].ci = 2
    /\ token_list[2] # <<>>

---------------------------------------------------------------------------
(* The download scripts, under SpecDownloads.                              *)

\* C20: download_jsons_concurrent only downloads missing JSONs: after any
\* sequence of check_progress and download runs, with either source, a download
\* is submitted only for an ID whose JSON file does not exist in the JSON
\* directory when the run starts.
C20_OnlyMissingSubmitted ==
    dl.pc = "running" =>
        \A i \in 1..Len(dl.missing_ids) : dl.missing_ids[i] \notin dl.start_files

\* C25: after a run with failed downloads, the script invoked again with
\* --source failed_downloads.txt, as its completion message instructs, is
\* accepted and retries exactly the IDs listed in failed_downloads.txt.
C25_FailedSourceRetried ==
    dl.source = "failed_downloads.txt" /\ failed_downloads # Absent =>
        dl.pc \in {"running", "finished"} /\ dl.missing_ids = failed_downloads

\* How many results of the run were counted for an ID, and how many of its
\* downloads reported failure.
TimesFailed(id) == Cardinality({k \in 1..Len(dl.failed_ids) : dl.failed_ids[k] = id})

FailuresCounted(id) ==
    Cardinality({i \in TasksIn({"counted failure"}) : dl.missing_ids[i] = id})

\* C27: in download_missing_jsons, for any list of IDs, any number of workers
\* and any completion order, every submitted ID yields exactly one result:
\* success_count counts the results that reported success, failed_ids holds
\* each ID once for each of its downloads that reported failure, and when the
\* run ends success_count + len(failed_ids) = len(missing_ids).
C27_OneResultEach ==
    dl.pc \in {"running", "finished"} =>
        /\ dl.success_count = Cardinality(TasksIn({"counted success"}))
        /\ \A id \in Range(dl.missing_ids) \cup Range(dl.failed_ids) :
               TimesFailed(id) = FailuresCounted(id)
        /\ dl.pc = "finished" =>
               dl.success_count + Len(dl.failed_ids) = Len(dl.missing_ids)

\* Two workers, two failures, the second task's result taken first.
C27_Witness ==
    /\ dl.pc = "finished"
    /\ dl.max_workers = 2
    /\ dl.missing_ids = <<"ZK_1_NB_1-1_V", "ZK_1_NB_1-2_V">>
    /\ dl.failed_ids = <<"ZK_1_NB_1-2_V", "ZK_1_NB_1-1_V">>
    /\ dl.success_count = 0

\* C28: within one run of download_missing_jsons, no two download tasks have
\* the same output file open for writing at the same time, whatever list
\* get_missing_ids returned.
C28_NoSharedSavePath ==
    dl.pc = "running" =>
        \A i, j \in TasksIn({"writing"}) : i # j => dl.missing_ids[i] # dl.missing_ids[j]

---------------------------------------------------------------------------
(* find_missing_ids.py and download_jsons_from_txt_ids.py on one working   *)
(* directory.                                                              *)

\* Most IDs in qa_master_ids.txt and in qa_mds_ids.txt.
MaxQaIds == 2

QaIds == {<<"1">>, <<"2">>}

\* The ID lists qa_master_ids.txt and qa_mds_ids.txt hold, as read.
QaIdLists == SeqsUpTo(QaIds, MaxQaIds)

\* The first line write_ids_to_file writes, without its line breaks.
MissingIdsHeader ==
    <<"#", " ", "I", "D", "s", " ", "p", "r", "e", "s", "e", "n", "t", " ", "i", "n", " ", "m", "a", "s", "t", "e", "r", "_", "i", "n", "d", "e", "x", ".", "t", "x", "t", " ", "b", "u", "t", " ", "m", "i", "s", "s", "i", "n", "g", " ", "i", "n", " ", "i", "n", "d", "e", "x", "_", "f", "u", "l", "l", "_", "m", "d", "s">>

\* find_missing_ids(master_ids, mds_ids)
find_missing_ids(master_ids, mds_ids) ==
    SelectSeq(master_ids, LAMBDA id_part : id_part \notin Range(mds_ids))

\* write_ids_to_file(ids, output_file): the lines of the file written.
write_ids_to_file(ids) ==
    <<MissingIdsHeader \o <<"\n">>, <<"\n">>>> \o [i \in 1..Len(ids) |-> ids[i] \o <<"\n">>]

\* read_ids_from_file(filename) of download_jsons_from_txt_ids.py: every
\* non-blank line, stripped.
read_ids_from_file(content) ==
    LET stripped == [i \in 1..Len(content) |-> Strip(content[i])]
    IN  SelectSeq(stripped, LAMBDA l : l # <<>>)

InitMissingIds ==
    /\ run \in [pc : {"shell"}, master_ids : QaIdLists, mds_ids : QaIdLists,
                missing_specific_ids : {Absent}, json_dir : SUBSET QaIds,
                ids : {<<>>}, next : {1}, requested : {<<>>}, success_count : {0}]
    /\ OutsideRunIdle

\* python find_missing_ids.py: it returns 1 when either list is empty, and
\* writes missing_specific_ids.txt when at least one ID is missing.
FindMissingIds ==
    /\ run.pc = "shell"
    /\ LET missing_ids == find_missing_ids(run.master_ids, run.mds_ids)
       IN  IF run.master_ids = <<>> \/ run.mds_ids = <<>> \/ missing_ids = <<>>
           THEN run' = run
           ELSE run' = [run EXCEPT !.missing_specific_ids = write_ids_to_file(missing_ids)]
    /\ UNCHANGED outsideRun

\* python download_jsons_from_txt_ids.py up to its loop: the IDs are read; open()
\* raises when the file is not there.
ReadTxtIds ==
    /\ run.pc = "shell"
    /\ IF run.missing_specific_ids = Absent
       THEN run' = [run EXCEPT !.pc = "FileNotFoundError"]
       ELSE run' = [run EXCEPT !.pc = "downloading", !.next = 1, !.requested = <<>>,
                               !.success_count = 0,
                               !.ids = read_ids_from_file(run.missing_specific_ids)]
    /\ UNCHANGED outsideRun

\* One turn of the loop over ids: an ID whose file exists is skipped, else
\* download_json requests it and a success writes the file.
DownloadTxtId ==
    /\ run.pc = "downloading"
    /\ run.next <= Len(run.ids)
    /\ LET id_part == run.ids[run.next]
       IN  IF id_part \in run.json_dir
           THEN run' = [run EXCEPT !.next = @ + 1, !.success_count = @ + 1]
           ELSE \E success \in BOOLEAN :
                run' = [run EXCEPT !.next = @ + 1,
                                   !.requested = Append(@, id_part),
                                   !.success_count = IF success THEN @ + 1 ELSE @,
                                   !.json_dir = IF success THEN @ \cup {id_part} ELSE @]
    /\ UNCHANGED outsideRun

\* The loop is over and the count is printed.
EndTxtDownload ==
    /\ run.pc = "downloading"
    /\ run.next > Len(run.ids)
    /\ run' = [run EXCEPT !.pc = "shell"]
    /\ UNCHANGED outsideRun

NextMissingIds == FindMissingIds \/ ReadTxtIds \/ DownloadTxtId \/ EndTxtDownload

SpecMissingIds == InitMissingIds /\ [][NextMissingIds]_vars

\* C21: every ID for which download_jsons_from_txt_ids requests a download is
\* one of the missing IDs find_missing_ids wrote to missing_specific_ids.txt,
\* an ID of the master list that the MD list lacks; no other line of the file
\* is treated as an ID.
C21_OnlyMissingIdsRequested ==
    /\ \A i \in 1..Len(run.requested) :
        run.requested[i] \in Range(run.master_ids) \ Range(run.mds_ids)
    /\ \A i \in 1..Len(run.ids) :
        run.ids[i] \in Range(run.master_ids) \ Range(run.mds_ids)

---------------------------------------------------------------------------
(* extract_links.py: LinkExtractor fed a document, taken as the sequence   *)
(* of tag events HTMLParser delivers.                                      *)

\* Most tags in a document.
MaxTags == 4

\* The tag events: <li>, </li>, <a href="#1">, <a href="#2">, </a>.
TagEvents ==
    { [kind |-> "start", tag |-> "li", attrs |-> <<>>],
      [kind |-> "end",   tag |-> "li", attrs |-> <<>>],
      [kind |-> "start", tag |-> "a",  attrs |-> << <<"href", "#1">> >>],
      [kind |-> "start", tag |-> "a",  attrs |-> << <<"href", "#2">> >>],
      [kind |-> "end",   tag |-> "a",  attrs |-> <<>>] }

Documents == SeqsUpTo(TagEvents, MaxTags)

\* The values of the href attributes, in the order of attrs.
HrefsOf(attrs) ==
    LET hrefs == SelectSeq(attrs, LAMBDA attr : attr[1] = "href")
    IN  [i \in 1..Len(hrefs) |-> hrefs[i][2]]

\* LinkExtractor() and parser.feed(content) about to deliver the first tag.
InitLinks ==
    /\ run \in [pc : {"feed"}, content : Documents, pos : {1}, links : {<<>>}, in_li : {FALSE}]
    /\ OutsideRunIdle

\* handle_starttag(tag, attrs)
HandleStartTag ==
    /\ run.pc = "feed"
    /\ run.pos <= Len(run.content)
    /\ LET ev    == run.content[run.pos]
           in_li == IF ev.tag = "li" THEN TRUE ELSE run.in_li
       IN  /\ ev.kind = "start"
           /\ run' = [run EXCEPT !.pos = @ + 1,
                                 !.in_li = in_li,
                                 !.links = IF in_li /\ ev.tag = "a" THEN @ \o HrefsOf(ev.attrs) ELSE @]
    /\ UNCHANGED outsideRun

\* handle_endtag(tag)
HandleEndTag ==
    /\ run.pc = "feed"
    /\ run.pos <= Len(run.content)
    /\ LET ev == run.content[run.pos]
       IN  /\ ev.kind = "end"
           /\ run' = [run EXCEPT !.pos = @ + 1,
                                 !.in_li = IF ev.tag = "li" THEN FALSE ELSE @]
    /\ UNCHANGED outsideRun

\* return parser.links
ReturnLinks ==
    /\ run.pc = "feed"
    /\ run.pos > Len(run.content)
    /\ run' = [run EXCEPT !.pc = "returned"]
    /\ UNCHANGED outsideRun

NextLinks == HandleStartTag \/ HandleEndTag \/ ReturnLinks

SpecLinks == InitLinks /\ [][NextLinks]_vars

\* The number of <li> elements open after the first n tags of a document.
RECURSIVE OpenLis(_, _)
OpenLis(doc, n) ==
    IF n = 0 THEN 0
    ELSE LET before == OpenLis(doc, n - 1)
         IN  IF doc[n].tag # "li" THEN before
             ELSE IF doc[n].kind = "start" THEN before + 1
             ELSE IF before > 0 THEN before - 1 ELSE 0

\* The hrefs of the <a> start tags of a document that occur while a <li> is
\* open, in document order.
RECURSIVE HrefsInsideLi(_, _)
HrefsInsideLi(doc, n) ==
    IF n = 0 THEN <<>>
    ELSE HrefsInsideLi(doc, n - 1)
            \o (IF doc[n].kind = "start" /\ doc[n].tag = "a" /\ OpenLis(doc, n) > 0
                THEN HrefsOf(doc[n].attrs) ELSE <<>>)

\* C22: LinkExtractor extracts the href of every <a> start tag that occurs while
\* a <li> element is open (an outer <li> that holds nested, already closed <li>
\* elements included), in document order, and of no <a> outside every <li>.
C22_LinksInsideLi ==
    run.pc = "returned" => run.links = HrefsInsideLi(run.content, Len(run.content))

---------------------------------------------------------------------------
(* The files written, under Spec.                                          *)

\* The non-blank lines of a file, trimmed, in file order.
RECURSIVE TrimmedNonBlank(_)
TrimmedNonBlank(content) ==
    IF content = <<>> THEN <<>>
    ELSE LET t == Strip(Head(content))
         IN  (IF t = <<>> THEN <<>> ELSE <<t>>) \o TrimmedNonBlank(Tail(content))

\* The output file holds the trimmed non-blank lines of the input file, sorted,
\* each followed by a line break.
OutputIsSortedInput ==
    LET inLines == TrimmedNonBlank(file_lines)
    IN  /\ Len(out_lines) = Len(inLines)
        /\ \A l \in Range(inLines) \cup Range(sorted_links) :
                Count(l, sorted_links) = Count(l, inLines)
        /\ \A i \in 1..Len(out_lines) : out_lines[i] = sorted_links[i] \o <<"\n">>
        /\ LET outToks == TokenLists(sorted_links)
           IN  \A i \in 1..(Len(sorted_links) - 1) :
                    ListCompare(outToks[i], outToks[i + 1]) \in {"lt", "eq"}

\* C23: for every regular file of the input directory process_files writes an
\* output file whose lines are exactly the file's non-blank lines, trimmed, in
\* sorted order, one identifier per line, each ended by a line break, as many
\* as the input has non-blank lines.
C23_EveryFileWritten ==
    pc \notin {"listing", "done"} => pc = "written" /\ OutputIsSortedInput

\* The same for the files the script gets through.
FilesWrittenAreSortedInput ==
    pc = "written" => OutputIsSortedInput

---------------------------------------------------------------------------
(* download_json: one call, attempt by attempt.  The three scripts that    *)
(* define it differ in where the failure after the last attempt is         *)
(* returned: inside the except clause (download_jsons_concurrent.py) or    *)
(* after the loop (download_jsons.py, download_jsons_from_txt_ids.py).     *)

\* retry_count as every caller passes it or leaves it.
retry_count == 3

DownloadScripts == {"download_jsons_concurrent.py", "download_jsons.py", "download_jsons_from_txt_ids.py"}

\* How one turn of the loop can end: the file is written, or an exception is
\* raised by requests.get (ConnectionError, Timeout), raise_for_status
\* (HTTPError), response.json() (requests' JSONDecodeError, or a ValueError
\* with a requests older than 2.27) or the writing of the file (OSError).
AttemptOutcomes == {"ok", "ConnectionError", "Timeout", "HTTPError", "JSONDecodeError", "ValueError", "OSError"}

\* Fault model: except Exception before except RequestException.
IsAnyException(outcome) == outcome # "ok"

\* The exceptions except requests.exceptions.RequestException catches.
IsRequestException(outcome) ==
    outcome \in {"ConnectionError", "Timeout", "HTTPError", "JSONDecodeError"}

InitRetry ==
    /\ run \in [pc : {"attempt"}, script : DownloadScripts, attempt : {0},
                tried : {<<>>}, result : {"none"}]
    /\ OutsideRunIdle

\* One turn of for attempt in range(retry_count).
Attempt ==
    /\ run.pc = "attempt"
    /\ run.attempt < retry_count
    /\ \E outcome \in AttemptOutcomes :
        LET tried == Append(run.tried, outcome)
        IN  IF outcome = "ok"
            THEN run' = [run EXCEPT !.tried = tried, !.pc = "returned", !.result = TRUE]
            ELSE IF IsRequestException(outcome)
            THEN IF run.attempt < retry_count - 1
                 THEN run' = [run EXCEPT !.tried = tried, !.attempt = @ + 1]
                 ELSE IF run.script = "download_jsons_concurrent.py"
                 THEN run' = [run EXCEPT !.tried = tried, !.pc = "returned", !.result = FALSE]
                 ELSE run' = [run EXCEPT !.tried = tried, !.attempt = @ + 1]
            ELSE run' = [run EXCEPT !.tried = tried, !.pc = "returned", !.result = FALSE]
    /\ UNCHANGED outsideRun

\* The loop is exhausted: return False.
ReturnAfterLoop ==
    /\ run.pc = "attempt"
    /\ run.attempt >= retry_count
    /\ run' = [run EXCEPT !.pc = "returned", !.result = FALSE]
    /\ UNCHANGED outsideRun

NextRetry == Attempt \/ ReturnAfterLoop

SpecRetry == InitRetry /\ [][NextRetry]_vars

\* requests.get has a timeout and the sleep between attempts is finite: a call
\* that can take a step takes it.
SpecRetryFair == SpecRetry /\ WF_vars(NextRetry)

RequestErrors == {"ConnectionError", "Timeout", "HTTPError", "JSONDecodeError"}

\* What holds of a call of download_json at every moment.
RetryDiscipline ==
    LET n == Len(run.tried)
    IN  /\ n <= retry_count
        /\ \A k \in 1..(n - 1) : run.tried[k] \in RequestErrors
        /\ run.pc = "attempt" => run.result = "none" /\ \A k \in 1..n : run.tried[k] \in RequestErrors
        /\ run.pc = "returned" =>
            /\ n >= 1
            /\ run.result \in BOOLEAN
            /\ run.result = TRUE <=> run.tried[n] = "ok"
            /\ run.result = FALSE =>
                \/ run.tried[n] \notin RequestErrors
                \/ n = retry_count

\* C24: download_json makes at most retry_count (3) HTTP attempts for one ID: a
\* further attempt only after a request error; it stops at the first successful
\* attempt and reports success, reports failure at once on any other exception
\* and reports failure once the last attempt has failed; it always terminates
\* with a success or failure result.
C24_RetryThenResult == [](RetryDiscipline) /\ <>(run.pc = "returned")

C24_Witness ==
    /\ run.pc = "returned"
    /\ run.tried = <<"Timeout", "HTTPError", "ok">>
    /\ run.result = TRUE

---------------------------------------------------------------------------
(* generate_master_index of check_progress.py on one input directory.      *)

\* U+00B2 SUPERSCRIPT TWO: str.isdigit accepts it, int() does not (it is a
\* digit of category No, not a decimal digit).
SuperscriptTwo == "U+00B2"

\* char.isdigit()
IsStrDigit(c) == IsDigit(c) \/ c = SuperscriptTwo

\* char.isalpha()
IsStrAlpha(c) == IsLetter(c) \/ c = LatinSmallEAcute

\* ord(c): what str's < compares.
CodePoint(c) ==
    IF c \in Range(AsciiDigits) THEN 47 + IndexOf(AsciiDigits, c)
    ELSE IF c \in UpperChars THEN 64 + IndexOf(AsciiUpper, c)
    ELSE IF c \in LowerChars THEN 96 + IndexOf(AsciiLower, c)
    ELSE IF c = "-" THEN 45
    ELSE IF c = "." THEN 46
    ELSE IF c = "_" THEN 95
    ELSE IF c = SuperscriptTwo THEN 178
    ELSE IF c = LatinSmallEAcute THEN 233
    ELSE 1635

\* s < t on two str.
StrLess(s, t) ==
    LET differ == {i \in 1..Min(Len(s), Len(t)) : s[i] # t[i]}
    IN  IF differ = {} THEN Len(s) < Len(t)
        ELSE LET i == CHOOSE i \in differ : \A j \in differ : i <= j
             IN  CodePoint(s[i]) < CodePoint(t[i])

LinksPrefix == <<"l", "i", "n", "k", "s", "_", "Z", "K", "_", "1", "_", "N", "B", "_">>

TxtSuffix == <<".", "t", "x", "t">>

\* re.search(r'links_ZK_1_NB_(.+?)\.txt', base).group(1), "" without a match:
\* the leftmost place the prefix stands, then the shortest non-empty run of
\* characters other than a line break that ".txt" follows.
extract_id_from_filename(filename) ==
    LET base == LastSegment(filename)
        n == Len(base)
        matches == {m \in (1..n) \X (1..n) :
                       /\ StartsWith(From(base, m[1]), LinksPrefix)
                       /\ m[1] + Len(LinksPrefix) + m[2] - 1 <= n
                       /\ \A k \in 0..m[2] - 1 : base[m[1] + Len(LinksPrefix) + k] # "\n"
                       /\ StartsWith(From(base, m[1] + Len(LinksPrefix) + m[2]), TxtSuffix)}
    IN  IF matches = {} THEN <<>>
        ELSE LET m == CHOOSE m \in matches :
                        \A o \in matches : m[1] < o[1] \/ (m[1] = o[1] /\ m[2] <= o[2])
             IN  SubSeq(base, m[1] + Len(LinksPrefix), m[1] + Len(LinksPrefix) + m[2] - 1)

\* id_part.replace('_', '.')
UnderscoresToDots(id_part) == [i \in 1..Len(id_part) |-> IF id_part[i] = "_" THEN "." ELSE id_part[i]]

CharType(c) == IF IsStrDigit(c) THEN "digit" ELSE IF IsStrAlpha(c) THEN "alpha" ELSE "special"

\* The parts the loop over id_part cuts: a part starts at the first character,
\* where the type of the character changes, and at every special character.
PartsOf(id_part) ==
    LET n == Len(id_part)
        starts == {i \in 1..n : \/ i = 1
                                \/ CharType(id_part[i]) # CharType(id_part[i - 1])
                                \/ CharType(id_part[i]) = "special"}
        start(p) == CHOOSE i \in starts : Cardinality({j \in starts : j < i}) = p - 1
        stop(i) == LET later == {j \in starts : j > i}
                   IN  IF later = {} THEN n ELSE (CHOOSE j \in later : \A k \in later : j <= k) - 1
    IN  [p \in 1..Cardinality(starts) |-> SubSeq(id_part, start(p), stop(start(p)))]

\* part.isdigit(), part.islower(), part.isupper()
PartIsDigit(part) == part # <<>> /\ \A i \in 1..Len(part) : IsStrDigit(part[i])

PartIsLower(part) ==
    /\ \E i \in 1..Len(part) : part[i] \in LowerChars \cup {LatinSmallEAcute}
    /\ \A i \in 1..Len(part) : part[i] \notin UpperChars

PartIsUpper(part) ==
    /\ \E i \in 1..Len(part) : part[i] \in UpperChars
    /\ \A i \in 1..Len(part) : part[i] \notin LowerChars \cup {LatinSmallEAcute}

\* int(part) raises ValueError on a character that is no decimal digit.
PartIntRaises(part) == IntRaises(part) \/ \E i \in 1..Len(part) : ~IsDigit(part[i])

\* The tuple a part becomes in the result.
SortableOf(part) ==
    IF PartIsDigit(part) THEN <<0, ParseInt(part)>>
    ELSE IF part = <<".">> THEN <<1, part>>
    ELSE IF part = <<"-">> THEN <<2, part>>
    ELSE IF PartIsLower(part) THEN <<3, part>>
    ELSE IF PartIsUpper(part) THEN <<4, part>>
    ELSE <<5, part>>

luhmann_sort_key_raises(filename) ==
    LET parts == PartsOf(UnderscoresToDots(extract_id_from_filename(filename)))
    IN  \E p \in 1..Len(parts) : PartIsDigit(parts[p]) /\ PartIntRaises(parts[p])

luhmann_sort_key(filename) ==
    LET parts == PartsOf(UnderscoresToDots(extract_id_from_filename(filename)))
    IN  [p \in 1..Len(parts) |-> SortableOf(parts[p])]

\* x < y on two tuples of the result: the first items, then the second ones,
\* which are two int or two str when the first items are equal.
SortableLess(x, y) ==
    IF x[1] # y[1] THEN x[1] < y[1]
    ELSE IF x[1] = 0 THEN x[2] < y[2]
    ELSE StrLess(x[2], y[2])

\* k1 < k2 on two results.
LuhmannKeyLess(k1, k2) ==
    LET differ == {i \in 1..Min(Len(k1), Len(k2)) : k1[i] # k2[i]}
    IN  IF differ = {} THEN Len(k1) < Len(k2)
        ELSE LET i == CHOOSE i \in differ : \A j \in differ : i <= j
             IN  SortableLess(k1[i], k2[i])

\* input_files.sort(key=luhmann_sort_key).  list.sort is stable: a file stands
\* behind the files of smaller key and behind the files of equal key that stood
\* before it.
SortByLuhmannKey(files) ==
    LET n == Len(files)
        key == [i \in 1..n |-> luhmann_sort_key(files[i])]
        place(i) == 1 + Cardinality({j \in 1..n :
                          \/ LuhmannKeyLess(key[j], key[i])
                          \/ j < i /\ ~LuhmannKeyLess(key[i], key[j])})
    IN  [p \in 1..n |-> files[CHOOSE i \in 1..n : place(i) = p]]

\* get_proper_ordering()
proper_order ==
    << <<"1", "_", "1">>, <<"1", "-", "2">>, <<"1", "-", "3">>, <<"1", "-", "5">>,
       <<"1", "-", "6">>, <<"1", "-", "8">>, <<"1", "-", "9">>, <<"1", "-", "1", "2">> >>

\* next((i for i, prefix in enumerate(proper_order) if id.startswith(prefix)),
\* len(proper_order))
ProperIndex(filename) ==
    LET id == extract_id_from_filename(filename)
        hits == {i \in 1..Len(proper_order) : StartsWith(id, proper_order[i])}
    IN  IF hits = {} THEN Len(proper_order)
        ELSE (CHOOSE i \in hits : \A j \in hits : i <= j) - 1

IsZettel1(filename) ==
    \/ StartsWith(extract_id_from_filename(filename), <<"1", "_">>)
    \/ StartsWith(extract_id_from_filename(filename), <<"1", "-">>)

\* zettel_1_files.sort(key=...), stable as well.
SortByProperIndex(files) ==
    LET n == Len(files)
        key == [i \in 1..n |-> ProperIndex(files[i])]
        place(i) == 1 + Cardinality({j \in 1..n : key[j] < key[i] \/ (j < i /\ key[j] = key[i])})
    IN  [p \in 1..n |-> files[CHOOSE i \in 1..n : place(i) = p]]

\* ordered_files of generate_master_index for input_files as glob listed them.
OrderedFiles(input_files) ==
    LET sorted == SortByLuhmannKey(input_files)
        zettel_1_files == SortByProperIndex(SelectSeq(sorted, IsZettel1))
        other_files == SelectSeq(sorted, LAMBDA f : f \notin Range(zettel_1_files))
    IN  zettel_1_files \o other_files

\* Most .txt files in the input directory.
MaxFiles == 2

\* The names the files are drawn from: three archive sections, one with a letter,
\* one name outside the pattern and one with a superscript digit.
IndexFileNames ==
    { <<"l", "i", "n", "k", "s", "_", "Z", "K", "_", "1", "_", "N", "B", "_", "1", "_", "1", ".", "t", "x", "t">>,
      <<"l", "i", "n", "k", "s", "_", "Z", "K", "_", "1", "_", "N", "B", "_", "1", "-", "2", ".", "t", "x", "t">>,
      <<"l", "i", "n", "k", "s", "_", "Z", "K", "_", "1", "_", "N", "B", "_", "2", ".", "t", "x", "t">>,
      <<"l", "i", "n", "k", "s", "_", "Z", "K", "_", "1", "_", "N", "B", "_", "1", "0", "a", ".", "t", "x", "t">>,
      <<"n", "o", "t", "e", "s", ".", "t", "x", "t">>,
      <<"l", "i", "n", "k", "s", "_", "Z", "K", "_", "1", "_", "N", "B", "_", "1">> \o <<SuperscriptTwo>> \o TxtSuffix }

\* The contents the files are drawn from: links with repetitions inside a file
\* and across files, blanks around a link and an empty line.
IndexFileContents ==
    { <<>>,
      <<<<"a", "\n">>, <<"b", "\n">>>>,
      <<<<"b", "\n">>, <<" ", "a", " ", "\n">>>>,
      <<<<"a", "\n">>, <<"\n">>, <<"a", "\n">>>>,
      <<<<"c", "\n">>, <<"b", "\n">>>> }

Directories == UNION {[names -> IndexFileContents] :
                         names \in {s \in SUBSET IndexFileNames : Cardinality(s) <= MaxFiles}}

\* The orders glob can list a set of files in.
Listings(names) ==
    {l \in [1..Cardinality(names) -> names] : \A i, j \in 1..Cardinality(names) : i # j => l[i] # l[j]}

InitIndex ==
    /\ run \in [pc : {"glob"}, dir : Directories, ordered_files : {<<>>}, next : {1},
                all_links : {<<>>}, seen_links : {{}}, reads : {<<>>}, output : {Absent}]
    /\ OutsideRunIdle

\* glob, the two sorts and the concatenation: the function returns False on a
\* directory without .txt files and ends in ValueError when a sort key raises.
OrderFiles ==
    /\ run.pc = "glob"
    /\ \E input_files \in Listings(DOMAIN run.dir) :
        IF input_files = <<>> THEN run' = [run EXCEPT !.pc = "no files"]
        ELSE IF \E i \in 1..Len(input_files) : luhmann_sort_key_raises(input_files[i])
        THEN run' = [run EXCEPT !.pc = "ValueError"]
        ELSE run' = [run EXCEPT !.pc = "read", !.ordered_files = OrderedFiles(input_files)]
    /\ UNCHANGED outsideRun

\* all_links and seen_links after the inner loop over links.
RECURSIVE AddUnseen(_, _)
AddUnseen(all_links, new_links) ==
    IF new_links = <<>> THEN all_links
    ELSE AddUnseen(IF Head(new_links) \in Range(all_links) THEN all_links
                   ELSE Append(all_links, Head(new_links)),
                   Tail(new_links))

\* One turn of the loop over ordered_files.
ReadInputFile ==
    /\ run.pc = "read"
    /\ run.next <= Len(run.ordered_files)
    /\ LET input_file == run.ordered_files[run.next]
           all_links == AddUnseen(run.all_links, ReadLinks(run.dir[input_file]))
       IN  run' = [run EXCEPT !.all_links = all_links,
                              !.seen_links = Range(all_links),
                              !.reads = Append(@, input_file),
                              !.next = @ + 1]
    /\ UNCHANGED outsideRun

\* The output file is written and the function returns True.
WriteIndex ==
    /\ run.pc = "read"
    /\ run.next > Len(run.ordered_files)
    /\ run' = [run EXCEPT !.pc = "written", !.output = WriteLinks(run.all_links)]
    /\ UNCHANGED outsideRun

NextIndex == OrderFiles \/ ReadInputFile \/ WriteIndex

SpecIndex == InitIndex /\ [][NextIndex]_vars

\* The links of the input files one after another, in the order the files
\* were read.
RECURSIVE LinksInOrder(_)
LinksInOrder(files) ==
    IF files = <<>> THEN <<>>
    ELSE ReadLinks(run.dir[Head(files)]) \o LinksInOrder(Tail(files))

FirstPlace(s, x) == CHOOSE i \in 1..Len(s) : s[i] = x /\ \A j \in 1..i - 1 : s[j] # x

IndexIsComplete ==
    LET out == ReadLinks(run.output)
        all == LinksInOrder(run.ordered_files)
    IN  /\ \A i, j \in 1..Len(out) : i # j => out[i] # out[j]
        /\ Range(out) = Range(all)
        /\ \A i, j \in 1..Len(out) : i < j => FirstPlace(all, out[i]) < FirstPlace(all, out[j])
        /\ \A f \in DOMAIN run.dir : Cardinality({k \in 1..Len(run.reads) : run.reads[k] = f}) = 1
        /\ Range(run.reads) = DOMAIN run.dir

\* C26: generate_master_index, on a directory with .txt files, writes every
\* link of any input file exactly once, in the order of first occurrence when
\* the files are read in the chosen order, and reads every input file exactly
\* once.
C26_IndexComplete ==
    run.pc \notin {"glob", "read", "no files"} => run.pc = "written" /\ IndexIsComplete


---------------------------------------------------------------------------
(* check_md_files of check_md_progress.py on one working directory.        *)

\* Most links in master_index.txt.
MaxMdLinks == 3

MdIds == {"ZK_1_NB_1-1_V", "ZK_1_NB_1-2_V", "ZK_1_NB_1-3_V"}

MdLinks == {<<ZettelBase, id>> : id \in MdIds}

\* Fault model: the JSON file looked at first.
ClassOfJsonFirst(md_exists, json_exists) ==
    IF ~json_exists THEN "missing json"
    ELSE IF md_exists THEN "md exists"
    ELSE "missing md"

\* The branch of the loop body a link takes.
ClassOf(md_exists, json_exists) ==
    IF md_exists THEN "md exists"
    ELSE IF ~json_exists THEN "missing json"
    ELSE "missing md"

InitMdProgress ==
    /\ run \in [pc : {"loop"}, links : SeqsUpTo(MdLinks, MaxMdLinks),
                json_dir : SUBSET MdIds, md_dir : SUBSET MdIds, next : {1},
                existing_md_count : {0}, missing_json_count : {0}, missing_md_count : {0},
                missing_ids : {<<>>}, missing_json_ids : {<<>>}, total_links : {0}]
    /\ OutsideRunIdle

\* One turn of the loop over links.
CheckMdLink ==
    /\ run.pc = "loop"
    /\ run.next <= Len(run.links)
    /\ LET id_part == extract_id_from_link(run.links[run.next])
           class == ClassOf(id_part \in run.md_dir, id_part \in run.json_dir)
       IN  run' = [run EXCEPT
                     !.next = @ + 1,
                     !.existing_md_count = IF class = "md exists" THEN @ + 1 ELSE @,
                     !.missing_json_count = IF class = "missing json" THEN @ + 1 ELSE @,
                     !.missing_json_ids = IF class = "missing json" THEN Append(@, id_part) ELSE @,
                     !.missing_md_count = IF class = "missing md" THEN @ + 1 ELSE @,
                     !.missing_ids = IF class = "missing md" THEN Append(@, id_part) ELSE @]
    /\ UNCHANGED outsideRun

\* The loop is over: the counts are returned with total_links = len(links).
ReturnMdCounts ==
    /\ run.pc = "loop"
    /\ run.next > Len(run.links)
    /\ run' = [run EXCEPT !.pc = "returned", !.total_links = Len(run.links)]
    /\ UNCHANGED outsideRun

NextMdProgress == CheckMdLink \/ ReturnMdCounts

SpecMdProgress == InitMdProgress /\ [][NextMdProgress]_vars

\* The links looked at so far whose Markdown file exists or not (md) and whose
\* JSON file exists or not (json).
LinksWith(md, json) ==
    {i \in 1..run.next - 1 :
        /\ (extract_id_from_link(run.links[i]) \in run.md_dir) = md
        /\ (extract_id_from_link(run.links[i]) \in run.json_dir) = json}

\* C29: check_md_files puts every link into exactly one of three classes,
\* Markdown exists, Markdown and JSON both missing, JSON exists and Markdown
\* missing: the three counts are the sizes of the classes, they add up to
\* total_links, and missing_ids holds the IDs of the links of the third class,
\* all of them with a JSON file and without a Markdown file.
C29_ThreeClasses ==
    /\ run.existing_md_count = Cardinality(LinksWith(TRUE, TRUE) \cup LinksWith(TRUE, FALSE))
    /\ run.missing_json_count = Cardinality(LinksWith(FALSE, FALSE))
    /\ run.missing_md_count = Cardinality(LinksWith(FALSE, TRUE))
    /\ Len(run.missing_ids) = run.missing_md_count
    /\ \A k \in 1..Len(run.missing_ids) :
          run.missing_ids[k] \in run.json_dir /\ run.missing_ids[k] \notin run.md_dir
    /\ \A i \in LinksWith(FALSE, TRUE) : extract_id_from_link(run.links[i]) \in Range(run.missing_ids)
    /\ run.pc = "returned" =>
          run.existing_md_count + run.missing_json_count + run.missing_md_count = run.total_links

\* One link of each class, the first with a Markdown file and no JSON file.
C29_Witness ==
    /\ run.pc = "returned"
    /\ run.total_links = 3
    /\ extract_id_from_link(run.links[1]) \in run.md_dir \ run.json_dir
    /\ run.existing_md_count = 1
    /\ run.missing_json_count = 1
    /\ run.missing_md_count = 1


---------------------------------------------------------------------------
(* cleanup_and_bold_first_words.py on one file of index_full_mds: the files *)
(* are handled independently, so runs of main are followed through one.     *)

\* content.split('\n')
SplitLines(content) ==
    LET breaks == {i \in 1..Len(content) : content[i] = "\n"}
        break(p) == IF p = 0 THEN 0
                    ELSE IF p > Cardinality(breaks) THEN Len(content) + 1
                    ELSE CHOOSE i \in breaks : Cardinality({j \in breaks : j < i}) = p - 1
    IN  [p \in 1..Cardinality(breaks) + 1 |-> SubSeq(content, break(p - 1) + 1, break(p) - 1)]

\* '\n'.join(lines)
RECURSIVE JoinLines(_)
JoinLines(lines) ==
    IF Len(lines) = 1 THEN lines[1]
    ELSE lines[1] \o <<"\n">> \o JoinLines(Tail(lines))

\* start_line_idx, 1-based: the first line that is not blank; Len(lines) + 1
\* without one.
StartLine(lines) ==
    LET full == {i \in 1..Len(lines) : Strip(lines[i]) # <<>>}
    IN  IF full = {} THEN Len(lines) + 1 ELSE CHOOSE i \in full : \A j \in full : i <= j

\* The length of the longest run of characters other than '*' from position i.
NoStarRun(s, i) ==
    LET stars == {j \in i..Len(s) : s[j] = "*"}
    IN  IF stars = {} THEN Len(s) - i + 1 ELSE (CHOOSE j \in stars : \A k \in stars : j <= k) - i

Stars(n) == [i \in 1..n |-> "*"]

\* len(match.group(0)) of re.match(r'^\*{n}[^*]+\*{n}', line), 0 without a
\* match: n asterisks, every character up to the next asterisk (at least one),
\* n asterisks.
BoldMatch(line, n) ==
    LET k == NoStarRun(line, n + 1)
    IN  IF StartsWith(line, Stars(n)) /\ k >= 1 /\ StartsWith(From(line, n + k + 1), Stars(n))
        THEN 2 * n + k ELSE 0

\* new_content of fix_double_bolding, the content itself when nothing is fixed.
fix_double_bolding(content) ==
    LET lines == SplitLines(content)
        idx == StartLine(lines)
    IN  IF Strip(content) = <<>> \/ idx > Len(lines) THEN content
        ELSE LET first_line == lines[idx]
                 matched == BoldMatch(first_line, 4)
             IN  IF matched = 0 THEN content
                 ELSE JoinLines([lines EXCEPT ![idx] =
                          Stars(2) \o SubSeq(first_line, 5, matched - 4) \o Stars(2)
                          \o From(first_line, matched + 1)])

is_already_bolded(content) ==
    LET lines == SplitLines(content)
        idx == StartLine(lines)
    IN  IF Strip(content) = <<>> \/ idx > Len(lines) THEN TRUE
        ELSE BoldMatch(lines[idx], 2) > 0

\* Words longer than this are left alone.
MaxFirstWord == 20

\* end_index: the place of the first space or '[' of the line, 0-based, its
\* length without one (a line holds no line break).
EndIndex(first_line) ==
    LET ends == {i \in 1..Len(first_line) : first_line[i] \in {" ", "["}}
    IN  IF ends = {} THEN Len(first_line) ELSE (CHOOSE i \in ends : \A j \in ends : i <= j) - 1

\* The checks main makes on the stripped content before it calls
\* bold_first_word: an empty file, or a first word that is too long.
MainSkips(content) ==
    LET stripped == Strip(content)
        lines == SplitLines(stripped)
        idx == StartLine(lines)
    IN  stripped = <<>> \/ idx > Len(lines) \/ EndIndex(lines[idx]) > MaxFirstWord

\* The content of the file after bold_first_word.
bold_first_word(content) ==
    LET lines == SplitLines(content)
        idx == StartLine(lines)
    IN  IF Strip(content) = <<>> \/ idx > Len(lines) THEN content
        ELSE LET first_line == lines[idx]
                 end_index == EndIndex(first_line)
             IN  IF end_index > MaxFirstWord THEN content
                 ELSE JoinLines([lines EXCEPT ![idx] =
                          Stars(2) \o SubSeq(first_line, 1, end_index) \o Stars(2)
                          \o From(first_line, end_index + 1)])

\* Longest file content enumerated, and most runs of the script.
MaxContentLen == 3

MaxRuns == 2

BoldChars == {"*", " ", "a", "[", "\n"}

\* A first word of MaxFirstWord + 1 characters.
LongWord == [i \in 1..MaxFirstWord + 1 |-> "a"]

\* The contents of the file before the first run: every short text, a
\* double-bolded first word, a bolded one, two plain lines and a first word too
\* long to bold.
BoldContents ==
    SeqsUpTo(BoldChars, MaxContentLen)
    \cup { Stars(4) \o <<"a">> \o Stars(4) \o <<" ", "a">>,
           Stars(2) \o <<"a">> \o Stars(2) \o <<" ", "a">>,
           <<"a", "a", " ", "a", "\n", "a">>,
           LongWord \o <<" ", "a">> }

InitBold ==
    /\ run \in [pc : {"first pass"}, start : BoldContents, content : BoldContents, after : {<<>>}]
    /\ run.content = run.start
    /\ OutsideRunIdle

\* The turn of the first loop on the file: a fixed content is written back.
FirstPass ==
    /\ run.pc = "first pass"
    /\ run' = [run EXCEPT !.pc = "second pass", !.content = fix_double_bolding(@)]
    /\ UNCHANGED outsideRun

\* The turn of the second loop on the file, to the end of the run.
SecondPass ==
    /\ run.pc = "second pass"
    /\ LET content == IF is_already_bolded(run.content) \/ MainSkips(run.content)
                      THEN run.content
                      ELSE bold_first_word(run.content)
       IN  run' = [run EXCEPT !.pc = "ran", !.content = content, !.after = Append(@, content)]
    /\ UNCHANGED outsideRun

\* The script is run again on the directory.
RunAgain ==
    /\ run.pc = "ran"
    /\ Len(run.after) < MaxRuns
    /\ run' = [run EXCEPT !.pc = "first pass"]
    /\ UNCHANGED outsideRun

NextBold == FirstPass \/ SecondPass \/ RunAgain

SpecBold == InitBold /\ [][NextBold]_vars

\* C30: a second run of cleanup_and_bold_first_words leaves the file exactly as
\* the first run left it, whatever the file held before the first run.
C30_SecondRunChangesNothing ==
    Len(run.after) >= 2 => run.after[2] = run.after[1]


=============================================================================
